---- MODULE Spec2Model ----
(***************************************************************************)
(* Model of image-resize-server: the key-protection codec                  *)
(* (EncryptionService), the resize cache (getOrCreateResizedImage), the    *)
(* variant cleanup (cleanupResizedVariants) and the upload and read        *)
(* handlers that drive them against the object store.                      *)
(*                                                                         *)
(* A JavaScript string is a sequence of UTF-16 code units (naturals below  *)
(* 65536); a Buffer is a sequence of bytes (naturals below 256).           *)
(***************************************************************************)
EXTENDS Integers, Sequences, FiniteSets, TLC

(***************************************************************************)
(* Bounds of the model.                                                    *)
(***************************************************************************)
\* longest plaintext drawn over PlainAlphabet (the sample key is drawn too)
MaxPlainLen == 2
\* number of encrypt calls on the plaintext
MaxEncrypts == 2

(***************************************************************************)
(* Program constants of the codec.                                         *)
(***************************************************************************)
IV_LENGTH == 12
SALT_LENGTH == 16
TAG_LENGTH == 16
KEY_LENGTH == 32
\* IV_LENGTH and SALT_LENGTH of the singleton EncryptionService
LEGACY_IV_LENGTH == 16
LEGACY_SALT_LENGTH == 64

VARIABLES
    plainText,   \* the string handed to encrypt
    issued,      \* the encrypt calls made so far: [salt, iv, token]
    dec,         \* the decrypt call: [how, src, input, out]
    legacy,      \* the calls on the singleton EncryptionService: [token, out]
    store,       \* the bucket: object key -> [body, contentType]
    reqs,        \* the HTTP requests received so far, with their responses
    tasks,       \* the asynchronous continuations of the handlers
    log,         \* the put and delete requests the bucket has received
    app,         \* the process: [phase, listening, registered, code, env]
    http         \* the exchanges of app.fetch: request, handlers run, response

codecVars == <<plainText, issued, dec, legacy>>
storeVars == <<store, reqs, tasks, log>>
appVars == <<app, http>>
vars == <<plainText, issued, dec, legacy, store, reqs, tasks, log, app, http>>

(***************************************************************************)
(* Sequence helpers.                                                       *)
(***************************************************************************)
Drop(s, n) == SubSeq(s, n + 1, Len(s))

Take(s, n) == SubSeq(s, 1, n)

\* Buffer.subarray(start, end) with 0-based offsets, end exclusive, clamped
subarray(buf, start, end) ==
    LET e == IF end > Len(buf) THEN Len(buf) ELSE end
    IN  IF start >= e THEN <<>> ELSE SubSeq(buf, start + 1, e)

\* the sequence <<f[1], ..., f[n]>> with every element computed once
seq(f, n) == SubSeq(f, 1, n)

\* String.prototype.replace(/a/g, b) for single code units
replaceAll(s, a, b) == seq([i \in 1..Len(s) |-> IF s[i] = a THEN b ELSE s[i]], Len(s))

(***************************************************************************)
(* Buffer.from(string, 'utf8') and buffer.toString('utf8').                *)
(***************************************************************************)
REPLACEMENT == <<239, 191, 189>>

isHighSurrogate(c) == c >= 55296 /\ c <= 56319

isLowSurrogate(c) == c >= 56320 /\ c <= 57343

\* the length of the longest prefix of s below 128 (copied as it is)
asciiRun(s) ==
    LET high == {i \in 1..Len(s) : s[i] >= 128}
    IN  IF high = {} THEN Len(s) ELSE (CHOOSE i \in high : \A j \in high : i <= j) - 1

RECURSIVE utf8Encode(_)
utf8Encode(s) ==
    IF asciiRun(s) = Len(s) THEN s
    ELSE LET n == asciiRun(s)
             c == s[n + 1]
             rest == Drop(s, n + 1)
         IN  Take(s, n) \o
      (IF c < 2048
        THEN <<192 + (c \div 64), 128 + (c % 64)>> \o utf8Encode(rest)
      ELSE IF isHighSurrogate(c) /\ Len(rest) >= 1 /\ isLowSurrogate(rest[1])
        THEN LET cp == 65536 + (c - 55296) * 1024 + (rest[1] - 56320)
             IN  <<240 + (cp \div 262144), 128 + ((cp \div 4096) % 64),
                   128 + ((cp \div 64) % 64), 128 + (cp % 64)>>
                 \o utf8Encode(Tail(rest))
      \* an unpaired surrogate is written as U+FFFD
      ELSE IF isHighSurrogate(c) \/ isLowSurrogate(c)
        THEN REPLACEMENT \o utf8Encode(rest)
      ELSE <<224 + (c \div 4096), 128 + ((c \div 64) % 64), 128 + (c % 64)>>
           \o utf8Encode(rest))

isCont(b, i) == i <= Len(b) /\ b[i] >= 128 /\ b[i] <= 191

RECURSIVE utf8Decode(_)
utf8Decode(buf) ==
    IF asciiRun(buf) = Len(buf) THEN buf
    ELSE LET n == asciiRun(buf)
             b == Drop(buf, n)
             c == b[1]
         IN  Take(buf, n) \o
      (IF c >= 194 /\ c <= 223 /\ isCont(b, 2)
        THEN <<(c - 192) * 64 + (b[2] - 128)>> \o utf8Decode(Drop(b, 2))
      ELSE IF c >= 224 /\ c <= 239 /\ isCont(b, 2) /\ isCont(b, 3)
              /\ (c = 224 => b[2] >= 160) /\ (c = 237 => b[2] <= 159)
        THEN <<(c - 224) * 4096 + (b[2] - 128) * 64 + (b[3] - 128)>>
             \o utf8Decode(Drop(b, 3))
      ELSE IF c >= 240 /\ c <= 244 /\ isCont(b, 2) /\ isCont(b, 3) /\ isCont(b, 4)
              /\ (c = 240 => b[2] >= 144) /\ (c = 244 => b[2] <= 143)
        THEN LET cp == (c - 240) * 262144 + (b[2] - 128) * 4096
                       + (b[3] - 128) * 64 + (b[4] - 128)
             IN  <<55296 + ((cp - 65536) \div 1024), 56320 + ((cp - 65536) % 1024)>>
                 \o utf8Decode(Drop(b, 4))
      \* a byte that starts no well-formed sequence reads as U+FFFD
      ELSE <<65533>> \o utf8Decode(Tail(b)))

(***************************************************************************)
(* buffer.toString('base64') and Buffer.from(string, 'base64').            *)
(***************************************************************************)
PAD == 61

base64Char(v) ==
    IF v < 26 THEN 65 + v
    ELSE IF v < 52 THEN 97 + (v - 26)
    ELSE IF v < 62 THEN 48 + (v - 52)
    ELSE IF v = 62 THEN 43 ELSE 47

orZero(b, i) == IF i <= Len(b) THEN b[i] ELSE 0

\* character c (1-based) of the padded encoding of b
base64At(b, c) ==
    LET g == (c - 1) \div 4
        r == (c - 1) % 4
        b1 == b[3 * g + 1]
        b2 == orZero(b, 3 * g + 2)
        b3 == orZero(b, 3 * g + 3)
    IN  IF r = 0 THEN base64Char(b1 \div 4)
        ELSE IF r = 1 THEN base64Char((b1 % 4) * 16 + (b2 \div 16))
        ELSE IF r = 2
          THEN IF 3 * g + 2 > Len(b) THEN PAD
               ELSE base64Char((b2 % 16) * 4 + (b3 \div 64))
        ELSE IF 3 * g + 3 > Len(b) THEN PAD ELSE base64Char(b3 % 64)

toBase64(b) ==
    LET n == 4 * ((Len(b) + 2) \div 3)
    IN  seq([c \in 1..n |-> base64At(b, c)], n)

\* the decoder's table: both the standard and the URL-safe alphabet are
\* legal, every other code unit maps to 64 (skipped)
unbase64(c) ==
    IF c >= 65 /\ c <= 90 THEN c - 65
    ELSE IF c >= 97 /\ c <= 122 THEN c - 97 + 26
    ELSE IF c >= 48 /\ c <= 57 THEN c - 48 + 52
    ELSE IF c = 43 \/ c = 45 THEN 62
    ELSE IF c = 47 \/ c = 95 THEN 63
    ELSE 64

\* the legal sextets of s up to the first '=', illegal code units skipped
sextets(s) ==
    LET pads == {i \in 1..Len(s) : s[i] = PAD}
        stop == IF pads = {} THEN Len(s)
                ELSE (CHOOSE i \in pads : \A j \in pads : i <= j) - 1
        legal(c) == unbase64(c) < 64
        q == SelectSeq(Take(s, stop), legal)
    IN  seq([i \in 1..Len(q) |-> unbase64(q[i])], Len(q))

\* byte k (1-based) of the decoding of the sextets q
byteAt(q, k) ==
    LET g == 4 * ((k - 1) \div 3)
        r == (k - 1) % 3
    IN  IF r = 0 THEN q[g + 1] * 4 + (q[g + 2] \div 16)
        ELSE IF r = 1 THEN (q[g + 2] % 16) * 16 + (q[g + 3] \div 4)
        ELSE (q[g + 3] % 4) * 64 + q[g + 4]

\* a trailing group of 2 sextets gives 1 byte, of 3 gives 2, of 1 none
sextetsToBytes(q) ==
    LET n == (Len(q) * 6) \div 8
    IN  seq([k \in 1..n |-> byteAt(q, k)], n)

fromBase64(s) == sextetsToBytes(sextets(s))

\* .replace(/=+$/, '')
RECURSIVE stripPadding(_)
stripPadding(s) ==
    IF s # <<>> /\ s[Len(s)] = PAD THEN stripPadding(Take(s, Len(s) - 1)) ELSE s

\* while (base64String.length % 4) base64String += '='
RECURSIVE addPadding(_)
addPadding(s) == IF Len(s) % 4 = 0 THEN s ELSE addPadding(Append(s, PAD))

toBase64Url(b) == stripPadding(replaceAll(replaceAll(toBase64(b), 43, 45), 47, 95))

fromBase64Url(s) == fromBase64(addPadding(replaceAll(replaceAll(s, 45, 43), 95, 47)))

(***************************************************************************)
(* The cipher.  scrypt and AES-256-GCM are library primitives; they are    *)
(* modelled by their contract: the derived key is a function of master key *)
(* and salt, the ciphertext is the plaintext xor a keystream that is a     *)
(* function of key and IV, and the tag is a function of key, IV and        *)
(* ciphertext that no single-byte change of the ciphertext preserves.      *)
(***************************************************************************)
RECURSIVE xorBits(_, _, _)
xorBits(a, b, n) ==
    IF n = 0 THEN 0
    ELSE (((a % 2) + (b % 2)) % 2) + 2 * xorBits(a \div 2, b \div 2, n - 1)

xor(a, b) == xorBits(a, b, 8)

RECURSIVE sumRange(_, _, _)
sumRange(b, lo, hi) ==
    IF lo > hi THEN 0
    ELSE IF lo = hi THEN b[lo]
    ELSE LET mid == (lo + hi) \div 2
         IN  sumRange(b, lo, mid) + sumRange(b, mid + 1, hi)

sumBytes(b) == sumRange(b, 1, Len(b))

at(buf, i) == buf[((i - 1) % Len(buf)) + 1]

\* 'test-encryption-key-123', the key string of encryption.test.ts
TEST_KEY ==
    <<116, 101, 115, 116, 45, 101, 110, 99, 114, 121, 112, 116, 105, 111, 110, 45,
      107, 101, 121, 45, 49, 50, 51>>

\* this.masterKey = Buffer.from(masterKeyString, 'utf8')
masterKey == utf8Encode(TEST_KEY)

deriveKey(mk, salt) ==
    LET s == sumBytes(salt)
    IN  seq([i \in 1..KEY_LENGTH |-> (at(mk, i) * 31 + at(salt, i) * 7 + s + i) % 256],
            KEY_LENGTH)

keystream(key, iv, ivSum, j) == (at(key, j) * 5 + at(iv, j) * 3 + ivSum + j) % 256

\* cipher.update(..) + cipher.final() and decipher.update(..)
gcmCrypt(key, iv, data) ==
    LET s == sumBytes(iv)
    IN  seq([j \in 1..Len(data) |-> xor(data[j], keystream(key, iv, s, j))], Len(data))

\* cipher.getAuthTag()
gcmTag(key, iv, ct) ==
    LET s == sumBytes(ct)
    IN  seq([i \in 1..TAG_LENGTH |->
              (at(key, i) + at(key, i + TAG_LENGTH) * 3 + at(iv, i) + Len(ct) * i
               + s * (2 * i - 1)) % 256], TAG_LENGTH)

(***************************************************************************)
(* EncryptionService.encrypt: salt and iv are the two randomBytes draws.   *)
(***************************************************************************)
\* encrypt with the salt and the IV of every call the same
encryptReusedNonce(plain, salt, iv) ==
    LET s == seq([i \in 1..SALT_LENGTH |-> 0], SALT_LENGTH)
        v == seq([i \in 1..IV_LENGTH |-> 0], IV_LENGTH)
        key == deriveKey(masterKey, s)
        encryptedBuffer == gcmCrypt(key, v, utf8Encode(plain))
        tag == gcmTag(key, v, encryptedBuffer)
    IN  toBase64Url(s \o v \o tag \o encryptedBuffer)

\* [salt][iv][ciphertext][tag] instead of [salt][iv][tag][ciphertext]
resultBufferTagLast(salt, iv, tag, encryptedBuffer) == salt \o iv \o encryptedBuffer \o tag

resultBuffer(salt, iv, tag, encryptedBuffer) == salt \o iv \o tag \o encryptedBuffer

encrypt(plain, salt, iv) ==
    LET key == deriveKey(masterKey, salt)
        encryptedBuffer == gcmCrypt(key, iv, utf8Encode(plain))
        tag == gcmTag(key, iv, encryptedBuffer)
    IN  toBase64Url(resultBuffer(salt, iv, tag, encryptedBuffer))

(***************************************************************************)
(* EncryptionService.decrypt.  The try block yields the plaintext or the   *)
(* message of the Error thrown in it; the catch block maps that message    *)
(* to the Error the caller sees.                                           *)
(***************************************************************************)
saltOffset == 0

ivOffset == saltOffset + SALT_LENGTH

tagOffset == ivOffset + IV_LENGTH

ciphertextOffset == tagOffset + TAG_LENGTH

TOO_SHORT == "Malformed encrypted data (too short)."

AUTH_FAILED == "Unsupported state or unable to authenticate data"

Ok(v) == [ok |-> TRUE, value |-> v]

Thrown(m) == [ok |-> FALSE, message |-> m]

\* decipher.final() without the tag having been set for verification
decipherUnverified(key, iv, tag, encryptedData) == Ok(gcmCrypt(key, iv, encryptedData))

\* decipher.setAuthTag(tag); decipher.update(encryptedData); decipher.final()
decipher(key, iv, tag, encryptedData) ==
    IF gcmTag(key, iv, encryptedData) = tag
    THEN Ok(gcmCrypt(key, iv, encryptedData))
    ELSE Thrown(AUTH_FAILED)

decryptTry(encryptedTextBase64Url) ==
    LET dataBuffer == fromBase64Url(encryptedTextBase64Url) IN
    IF Len(dataBuffer) < ciphertextOffset THEN Thrown(TOO_SHORT)
    ELSE LET salt == subarray(dataBuffer, saltOffset, ivOffset)
             iv == subarray(dataBuffer, ivOffset, tagOffset)
             tag == subarray(dataBuffer, tagOffset, ciphertextOffset)
             encryptedData == subarray(dataBuffer, ciphertextOffset, Len(dataBuffer))
             key == deriveKey(masterKey, salt)
             decrypted == decipher(key, iv, tag, encryptedData)
         IN  IF decrypted.ok THEN Ok(utf8Decode(decrypted.value)) ELSE decrypted

\* error.message.toLowerCase().includes('authentication fail') ||
\* error.message.toLowerCase().includes('unsupported state')
isAuthMessage(m) == m = AUTH_FAILED

\* error.message.toLowerCase().includes('invalid base64') ||
\* error.message.includes('Malformed encrypted data')
isMalformedMessage(m) == m = TOO_SHORT

DecryptionFailed(detail) == Thrown([prefix |-> "Decryption failed: ", detail |-> detail])

\* the catch block rethrowing the error it caught
decryptRethrow(m) == Thrown([prefix |-> "", detail |-> m])

decryptCatch(m) ==
    IF isAuthMessage(m) THEN DecryptionFailed("Invalid or corrupted encrypted data.")
    ELSE IF isMalformedMessage(m) THEN DecryptionFailed("Malformed encrypted data format.")
    ELSE DecryptionFailed("Unable to decrypt data.")

decrypt(encryptedTextBase64Url) ==
    IF encryptedTextBase64Url = <<>>
    THEN DecryptionFailed("Input string cannot be empty.")
    ELSE LET r == decryptTry(encryptedTextBase64Url)
         IN  IF r.ok THEN r ELSE decryptCatch(r.message)

(***************************************************************************)
(* The singleton EncryptionService that encryption.test.ts drives: one key *)
(* derived at construction with the fixed salt 'salt', the ciphertext      *)
(* passed through hex, standard base64, and no catch block in decrypt.     *)
(***************************************************************************)
hexDigit(v) == IF v < 10 THEN 48 + v ELSE 97 + (v - 10)

unhex(c) ==
    IF c >= 48 /\ c <= 57 THEN c - 48
    ELSE IF c >= 97 /\ c <= 102 THEN c - 97 + 10
    ELSE IF c >= 65 /\ c <= 70 THEN c - 65 + 10
    ELSE 16

\* cipher.update(text, 'utf8', 'hex') + cipher.final('hex')
toHex(b) ==
    seq([i \in 1..(2 * Len(b)) |->
            IF i % 2 = 1 THEN hexDigit(b[(i + 1) \div 2] \div 16)
            ELSE hexDigit(b[i \div 2] % 16)], 2 * Len(b))

\* Buffer.from(encrypted, 'hex'): the pairs before the first that is no hex
fromHex(s) ==
    LET pairs == Len(s) \div 2
        bad == {k \in 1..pairs : unhex(s[2 * k - 1]) = 16 \/ unhex(s[2 * k]) = 16}
        n == IF bad = {} THEN pairs ELSE (CHOOSE k \in bad : \A j \in bad : k <= j) - 1
    IN  seq([k \in 1..n |-> unhex(s[2 * k - 1]) * 16 + unhex(s[2 * k])], n)

\* this.key = crypto.scryptSync(encryptionKey, 'salt', KEY_LENGTH)
legacyKey == deriveKey(utf8Encode(TEST_KEY), utf8Encode(<<115, 97, 108, 116>>))

legacyEncrypt(text, salt, iv) ==
    LET encrypted == toHex(gcmCrypt(legacyKey, iv, utf8Encode(text)))
        tag == gcmTag(legacyKey, iv, fromHex(encrypted))
    IN  toBase64(salt \o iv \o tag \o fromHex(encrypted))

legacyDecrypt(encryptedText) ==
    LET buffer == fromBase64(encryptedText)
        iv == subarray(buffer, LEGACY_SALT_LENGTH, LEGACY_SALT_LENGTH + LEGACY_IV_LENGTH)
        tag == subarray(buffer, LEGACY_SALT_LENGTH + LEGACY_IV_LENGTH,
                        LEGACY_SALT_LENGTH + LEGACY_IV_LENGTH + TAG_LENGTH)
        encrypted == subarray(buffer, LEGACY_SALT_LENGTH + LEGACY_IV_LENGTH + TAG_LENGTH,
                              Len(buffer))
        decrypted == decipher(legacyKey, iv, tag, encrypted)
    IN  IF decrypted.ok THEN Ok(utf8Decode(decrypted.value)) ELSE decrypted

(***************************************************************************)
(* Inputs of the codec: plaintexts over an alphabet with one code unit of  *)
(* each UTF-8 width and both surrogate halves, the storage key of          *)
(* encryption.test.ts, and the outcomes of crypto.randomBytes.             *)
(***************************************************************************)
PlainAlphabet == {65, 233, 55357, 56832}

SAMPLE_KEY ==
    <<50, 48, 48, 48, 48, 48, 48, 48, 48, 48, 48, 48, 48, 48, 48, 48, 48, 48, 47,
      49, 55, 52, 51, 49, 55, 51, 52, 57, 53, 54, 49, 48, 45, 57, 98, 52, 53, 48,
      102, 52, 97, 45, 57, 55, 49, 51, 45, 52, 99, 57, 54, 45, 97, 50, 98, 53, 45,
      99, 98, 102, 98, 101, 53, 55, 53, 49, 49, 50, 99>>

Plaintexts == UNION {[1..n -> PlainAlphabet] : n \in 0..MaxPlainLen} \cup {SAMPLE_KEY}

\* String.prototype.isWellFormed: no unpaired surrogate
RECURSIVE isWellFormed(_)
isWellFormed(s) ==
    IF s = <<>> THEN TRUE
    ELSE IF isHighSurrogate(Head(s))
      THEN Len(s) >= 2 /\ isLowSurrogate(s[2]) /\ isWellFormed(Tail(Tail(s)))
    ELSE ~isLowSurrogate(Head(s)) /\ isWellFormed(Tail(s))

\* the draws of crypto.randomBytes(n) the model considers
randomBytes(n) == {seq([i \in 1..n |-> (seed * 37 + i * 11) % 256], n) : seed \in {3, 200}}

\* the byte masks a tampering flips
FlipMasks == {1, 255}

\* code units put in place of a token character to garble the encoding:
\* '!' and ' ' are outside the alphabet, '=' ends the decoding
GarbleUnits == {33, 61}

NoDec == [how |-> "none"]

NoLegacy == [how |-> "none"]

(***************************************************************************)
(* The bucket as start-up leaves it.                                       *)
(*                                                                         *)
(* An image is [id, width, height, pass]: id names the picture, pass       *)
(* counts the encodings by sharp it went through, so two buffers are equal *)
(* exactly when they show the same picture at the same dimensions after    *)
(* the same number of encodings.  An object is [body, contentType].        *)
(***************************************************************************)
\* "image/png"
IMAGE_PNG == <<105, 109, 97, 103, 101, 47, 112, 110, 103>>
\* env.HEALTH_CHECK_IMAGE_KEY, here "h"
HEALTH_CHECK_IMAGE_KEY == <<104>>
\* createHealthCheckImage(): a 400 x 400 png
createHealthCheckImage == [id |-> 0, width |-> 400, height |-> 400, pass |-> 0]

\* s3.putObject(bucket, key, body, contentType)
putObject(s, key, body, contentType) ==
    (key :> [body |-> body, contentType |-> contentType]) @@ s

\* an empty bucket
EmptyBucket == [k \in {} |-> [body |-> createHealthCheckImage, contentType |-> IMAGE_PNG]]

\* ensureHealthCheckImage(s3) on a bucket s
ensureHealthCheckImage(s) ==
    IF HEALTH_CHECK_IMAGE_KEY \in DOMAIN s
    THEN s
    ELSE putObject(s, HEALTH_CHECK_IMAGE_KEY, createHealthCheckImage, IMAGE_PNG)

\* the process after main.ts has run to its end: the server listens and the
\* routes are registered
Serving ==
    [phase |-> "serving", listening |-> TRUE, registered |-> TRUE, code |-> 0,
     env |-> [IMAGE_KEY_ENCRYPTION_KEY |-> <<107, 101, 121>>]]

\* the server is up and no request has been received
Idle ==
    /\ reqs = <<>>
    /\ tasks = <<>>
    /\ log = <<>>
    /\ app = Serving
    /\ http = <<>>

(***************************************************************************)
(* Actions of the codec.                                                   *)
(***************************************************************************)
CodecInit ==
    /\ plainText \in Plaintexts
    /\ issued = <<>>
    /\ dec = NoDec
    /\ legacy = NoLegacy
    /\ store = ensureHealthCheckImage(EmptyBucket)
    /\ Idle

\* encryptionService.encrypt(plainText)
Encrypt ==
    /\ dec = NoDec
    /\ legacy = NoLegacy
    /\ Len(issued) < MaxEncrypts
    /\ \E salt \in randomBytes(SALT_LENGTH), iv \in randomBytes(IV_LENGTH) :
          issued' = Append(issued, [salt |-> salt, iv |-> iv,
                                    token |-> encrypt(plainText, salt, iv)])
    /\ UNCHANGED <<plainText, dec, legacy>>
    /\ UNCHANGED storeVars
    /\ UNCHANGED appVars

\* encryptionService.decrypt(token) of a token encrypt returned
DecryptIssued ==
    /\ dec = NoDec
    /\ \E i \in 1..Len(issued) :
          dec' = [how |-> "issued", src |-> i, input |-> issued[i].token,
                  out |-> decrypt(issued[i].token)]
    /\ UNCHANGED <<plainText, issued, legacy>>
    /\ UNCHANGED storeVars
    /\ UNCHANGED appVars

\* A tampered, truncated or garbled token is derived from the token of the
\* first encrypt call, before a second call is made.
attacked == IF Len(issued) = 1 THEN {1} ELSE {}

\* the token whose decoded byte at 1-based position pos is flipped by mask
tamper(token, pos, mask) ==
    LET b == fromBase64Url(token)
    IN  toBase64Url([b EXCEPT ![pos] = xor(b[pos], mask)])

\* decrypt of a token with one byte of the tag or ciphertext region changed
DecryptTampered ==
    /\ dec = NoDec
    /\ \E i \in attacked :
         \E pos \in (tagOffset + 1)..Len(fromBase64Url(issued[i].token)), mask \in FlipMasks :
            LET t == tamper(issued[i].token, pos, mask)
            IN  dec' = [how |-> "tampered", src |-> i, pos |-> pos, input |-> t,
                        out |-> decrypt(t)]
    /\ UNCHANGED <<plainText, issued, legacy>>
    /\ UNCHANGED storeVars
    /\ UNCHANGED appVars

\* decrypt of a prefix of a token (the empty string included)
DecryptTruncated ==
    /\ dec = NoDec
    /\ \E i \in attacked :
         \E n \in 0..(Len(issued[i].token) - 1) :
            LET t == Take(issued[i].token, n)
            IN  dec' = [how |-> "truncated", src |-> i, input |-> t, out |-> decrypt(t)]
    /\ UNCHANGED <<plainText, issued, legacy>>
    /\ UNCHANGED storeVars
    /\ UNCHANGED appVars

\* decrypt of a token with one character replaced by one outside the alphabet
DecryptGarbled ==
    /\ dec = NoDec
    /\ \E i \in attacked :
         \E p \in 1..Len(issued[i].token), c \in GarbleUnits :
            LET t == [issued[i].token EXCEPT ![p] = c]
            IN  dec' = [how |-> "garbled", src |-> i, input |-> t, out |-> decrypt(t)]
    /\ UNCHANGED <<plainText, issued, legacy>>
    /\ UNCHANGED storeVars
    /\ UNCHANGED appVars

\* encryption.test.ts: encryptedKey = encryptionService.encrypt(originalKey)
LegacyEncrypt ==
    /\ legacy = NoLegacy
    /\ issued = <<>>
    /\ \E salt \in randomBytes(LEGACY_SALT_LENGTH), iv \in randomBytes(LEGACY_IV_LENGTH) :
          legacy' = [how |-> "encrypted", token |-> legacyEncrypt(plainText, salt, iv)]
    /\ UNCHANGED <<plainText, issued, dec>>
    /\ UNCHANGED storeVars
    /\ UNCHANGED appVars

\* encryption.test.ts: decryptedKey = encryptionService.decrypt(encryptedKey)
LegacyDecrypt ==
    /\ legacy.how = "encrypted"
    /\ legacy' = [how |-> "decrypted", token |-> legacy.token,
                  out |-> legacyDecrypt(legacy.token)]
    /\ UNCHANGED <<plainText, issued, dec>>
    /\ UNCHANGED storeVars
    /\ UNCHANGED appVars

CodecNext ==
    \/ Encrypt
    \/ LegacyEncrypt
    \/ LegacyDecrypt
    \/ DecryptIssued
    \/ DecryptTampered
    \/ DecryptTruncated
    \/ DecryptGarbled

SpecCodec == CodecInit /\ [][CodecNext]_vars

(***************************************************************************)
(* Claims about the codec, checked under SpecCodec.                        *)
(***************************************************************************)
decryptedIssued == dec.how = "issued"

\* C1 as stated: for every plaintext string, decrypt(encrypt(s)) returns
\* exactly s, with either EncryptionService.
RoundTripEveryString ==
    /\ decryptedIssued => dec.out = Ok(plainText)
    /\ legacy.how = "decrypted" => legacy.out = Ok(plainText)

\* C1: for every well-formed plaintext string (no unpaired surrogate code
\* unit), decrypt(encrypt(s)) returns exactly s, with either service; an
\* unpaired surrogate comes back as U+FFFD.
RoundTripWellFormed ==
    isWellFormed(plainText) =>
        /\ decryptedIssued => dec.out = Ok(plainText)
        /\ legacy.how = "decrypted" => legacy.out = Ok(plainText)

\* the sample key of the test has been encrypted and decrypted back
RoundTripWitness ==
    /\ plainText = SAMPLE_KEY
    /\ decryptedIssued
    /\ dec.out = Ok(SAMPLE_KEY)

\* C2: a token with one byte of the tag or ciphertext region changed makes
\* decrypt throw.
TamperDetected == dec.how = "tampered" => ~dec.out.ok

\* a byte of the ciphertext region was changed and decrypt threw
TamperWitness ==
    /\ dec.how = "tampered"
    /\ dec.pos > ciphertextOffset
    /\ ~dec.out.ok

differentDraws(i, j) ==
    issued[i].salt # issued[j].salt \/ issued[i].iv # issued[j].iv

distinctTokens ==
    \A i, j \in 1..Len(issued) :
        i # j /\ differentDraws(i, j) => issued[i].token # issued[j].token

\* C3 as stated: two encrypt calls on the same plaintext with fresh salt and
\* IV yield different tokens, and each token decrypts to the plaintext.
TwoTokensEveryString ==
    /\ distinctTokens
    /\ decryptedIssued => dec.out = Ok(plainText)

\* C3: two encrypt calls on the same plaintext whose draws of salt and IV
\* differ yield different tokens, and each token decrypts to the plaintext
\* when the plaintext is well formed.
TwoTokensWellFormed ==
    /\ distinctTokens
    /\ isWellFormed(plainText) /\ decryptedIssued => dec.out = Ok(plainText)

\* two different tokens of a non-empty plaintext, the second decrypted back
TwoTokensWitness ==
    /\ Len(issued) = 2
    /\ plainText # <<>>
    /\ issued[1].token # issued[2].token
    /\ decryptedIssued
    /\ dec.src = 2
    /\ dec.out = Ok(plainText)

decryptFailed == dec.how # "none" /\ ~dec.out.ok

\* C4 as stated: every failing decrypt raises the same error, the one the
\* empty input raises.
SingleDecryptionError == decryptFailed => dec.out = decrypt(<<>>)

\* C4: every failing decrypt raises an Error whose message begins with
\* "Decryption failed: "; the rest of the message tells the cause: empty
\* input, decoded input shorter than salt, IV and tag, or failed tag
\* verification.
DecryptionErrorByCause ==
    decryptFailed =>
        /\ dec.out.message.prefix = "Decryption failed: "
        /\ dec.out.message.detail =
             IF dec.input = <<>> THEN "Input string cannot be empty."
             ELSE IF Len(fromBase64Url(dec.input)) < SALT_LENGTH + IV_LENGTH + TAG_LENGTH
               THEN "Malformed encrypted data format."
             ELSE "Invalid or corrupted encrypted data."

\* a badly encoded token failed as malformed, not as the empty input does
DecryptionErrorWitness ==
    /\ dec.how = "garbled"
    /\ ~dec.out.ok
    /\ dec.out.message.detail = "Malformed encrypted data format."

(***************************************************************************)
(* Strings of the image service.                                           *)
(***************************************************************************)
\* str.startsWith(prefix)
startsWith(str, prefix) ==
    Len(str) >= Len(prefix) /\ Take(str, Len(prefix)) = prefix

\* str.toLowerCase(), on the ASCII letters
toLowerCase(str) ==
    seq([i \in 1..Len(str) |-> IF str[i] \in 65..90 THEN str[i] + 32 ELSE str[i]],
        Len(str))

\* str.includes(c) for a one-character c
includes(str, c) == \E i \in 1..Len(str) : str[i] = c

\* str.split(c) for a one-character c
RECURSIVE split(_, _)
split(str, c) ==
    IF ~includes(str, c)
    THEN <<str>>
    ELSE LET i == CHOOSE i \in 1..Len(str) :
                      str[i] = c /\ \A j \in 1..(i - 1) : str[j] # c
         IN  <<Take(str, i - 1)>> \o split(Drop(str, i), c)

\* the characters "x", "_", "/" and "-"
X == 120
UNDERSCORE == <<95>>
SLASH == <<47>>
HYPHEN == <<45>>

\* the decimal digits
DIGITS == 48..57
\* white space that parseInt and Number skip
WHITE_SPACE == {9, 10, 11, 12, 13, 32}

\* the number a string is converted to: NaN or an integer
NaN == [nan |-> TRUE, n |-> 0, den |-> 1]
Num(n) == [nan |-> FALSE, n |-> n, den |-> 1]

\* the number n / den, den a power of ten
Ratio(n, den) == [nan |-> FALSE, n |-> n, den |-> den]

\* Number.isInteger(number)
isInteger(number) == ~number.nan /\ number.n % number.den = 0

\* the value of a string of decimal digits
RECURSIVE digitsValue(_)
digitsValue(digits) ==
    IF digits = <<>> THEN 0
    ELSE 10 * digitsValue(Take(digits, Len(digits) - 1))
         + (digits[Len(digits)] - 48)

\* the decimal digits of a natural number
RECURSIVE decimal(_)
decimal(n) ==
    IF n < 10 THEN <<48 + n>> ELSE decimal(n \div 10) \o <<48 + (n % 10)>>

\* the length of the longest prefix of str made of characters of the class
RECURSIVE spanWhile(_, _)
spanWhile(str, class) ==
    IF str # <<>> /\ str[1] \in class THEN 1 + spanWhile(Drop(str, 1), class) ELSE 0

\* parseInt(str): leading white space, a sign, then the longest run of
\* decimal digits; NaN when there is no digit
parseInt(str) ==
    LET t == Drop(str, spanWhile(str, WHITE_SPACE))
        signed == t # <<>> /\ t[1] \in {43, 45}
        u == IF signed THEN Drop(t, 1) ELSE t
        n == spanWhile(u, DIGITS)
        v == digitsValue(Take(u, n))
    IN  IF n = 0 THEN NaN
        ELSE IF signed /\ t[1] = 45 THEN Num(0 - v) ELSE Num(v)

\* number.toString()
toString(number) ==
    IF number.nan THEN <<78, 97, 78>>
    ELSE IF number.n < 0 THEN HYPHEN \o decimal(0 - number.n)
    ELSE decimal(number.n)

\* 10 to the power k
RECURSIVE pow10(_)
pow10(k) == IF k = 0 THEN 1 ELSE 10 * pow10(k - 1)

\* the exponents beyond which a number is far above MAX_DIMENSION or far
\* below 1 whatever its digits
MaxExponent == 5

\* str.trim()
trim(str) ==
    LET t == Drop(str, spanWhile(str, WHITE_SPACE))
        trail == CHOOSE k \in 0..Len(t) :
                     /\ \A i \in (Len(t) - k + 1)..Len(t) : t[i] \in WHITE_SPACE
                     /\ (k < Len(t) => t[Len(t) - k] \notin WHITE_SPACE)
    IN  Take(t, Len(t) - trail)

\* a literal without its sign
unsigned(str) ==
    IF str # <<>> /\ str[1] \in {43, 45} THEN Drop(str, 1) ELSE str

\* where the exponent indicator of a literal stands, or past its end
exponentAt(str) ==
    CHOOSE i \in 1..(Len(str) + 1) :
        /\ i <= Len(str) => str[i] \in {69, 101}
        /\ \A j \in 1..(i - 1) : str[j] \notin {69, 101}

\* digits with an optional fraction, or a fraction alone
isMantissa(str) ==
    LET k == spanWhile(str, DIGITS)
    IN  IF k = Len(str) THEN k > 0
        ELSE /\ str[k + 1] = 46
             /\ Len(str) > 1
             /\ spanWhile(Drop(str, k + 1), DIGITS) = Len(str) - k - 1

\* the number of digits of the fraction of a mantissa
fractionDigits(str) ==
    IF includes(str, 46) THEN Len(str) - spanWhile(str, DIGITS) - 1 ELSE 0

\* nothing, or the exponent indicator, an optional sign and digits
isExponentPart(str) ==
    \/ str = <<>>
    \/ /\ unsigned(Drop(str, 1)) # <<>>
       /\ spanWhile(unsigned(Drop(str, 1)), DIGITS) = Len(unsigned(Drop(str, 1)))

\* the exponent an exponent part stands for, kept within MaxExponent
exponent(str) ==
    LET e == digitsValue(unsigned(Drop(str, 1)))
    IN  IF str = <<>> THEN 0
        ELSE IF str[2] = 45
        THEN (IF e > MaxExponent THEN 0 - MaxExponent ELSE 0 - e)
        ELSE (IF e > MaxExponent THEN MaxExponent ELSE e)

\* the value of a mantissa with a sign and an exponent
decimalLiteral(negative, mantissa, e) ==
    Ratio((IF negative THEN 0 - 1 ELSE 1)
              * digitsValue(SelectSeq(mantissa, LAMBDA c : c \in DIGITS))
              * pow10(IF e > 0 THEN e ELSE 0),
          pow10(fractionDigits(mantissa) + (IF e < 0 THEN 0 - e ELSE 0)))

\* the value of a mantissa and an exponent part, NaN when either is none
literal(negative, mantissa, exponentPart) ==
    IF isMantissa(mantissa) /\ isExponentPart(exponentPart)
    THEN decimalLiteral(negative, mantissa, exponent(exponentPart))
    ELSE NaN

\* the value of a trimmed string: the empty string is 0
numeric(str) ==
    IF str = <<>> THEN Num(0)
    ELSE literal(str[1] = 45,
                 Take(unsigned(str), exponentAt(unsigned(str)) - 1),
                 Drop(unsigned(str), exponentAt(unsigned(str)) - 1))

\* Number(str) on the strings made of white space, signs, digits, "." and
\* letters other than those of "Infinity" and of the 0b, 0o and 0x
\* literals: white space is trimmed, the empty string is 0, a decimal
\* literal (digits with an optional fraction, or a fraction alone, and an
\* optional exponent) is its value, anything else is NaN
Number(str) == numeric(trim(str))

(***************************************************************************)
(* Size validation.                                                        *)
(***************************************************************************)
\* new handlers.<name>(): an HTTPException
HTTPException(name) == Thrown(name)

\* the dimension limit of validateSize
MAX_DIMENSION == 5000

\* validateSizeParameter(_size) of the helpers: the length test on one
\* dimension string
sameLength(w) == Len(w) = Len(toString(parseInt(w)))

validateSizeParameter(_size) ==
    LET size == toLowerCase(_size)
        parts == split(size, X)
    IN  IF size # <<>> /\ includes(size, X)
        THEN IF ~sameLength(parts[1]) THEN HTTPException("InvalidSizeParameter")
             ELSE IF ~sameLength(parts[2]) THEN HTTPException("InvalidSizeParameter")
             ELSE Ok(size)
        ELSE IF ~sameLength(size) THEN HTTPException("InvalidSizeParameter")
             ELSE Ok(size)

\* a validateSize that takes a bare number for a square
validateSizeSquare(size) ==
    LET parts == split(toLowerCase(size), X)
        width == Number(parts[1])
        height == IF Len(parts) >= 2 THEN Number(parts[2]) ELSE Number(parts[1])
    IN  IF width.nan \/ height.nan THEN HTTPException("InvalidSizeParameter")
        ELSE IF width.n <= 0 \/ height.n <= 0 THEN HTTPException("InvalidSizeParameter")
        ELSE IF width.n > MAX_DIMENSION * width.den
                \/ height.n > MAX_DIMENSION * height.den
             THEN HTTPException("InvalidSizeParameter")
        ELSE Ok([width |-> width, height |-> height])

\* validateSize(size) of the resize cache
validateSize(size) ==
    LET parts == split(toLowerCase(size), X)
        width == Number(parts[1])
        \* a missing second part is undefined, and isNaN(undefined) holds
        height == IF Len(parts) >= 2 THEN Number(parts[2]) ELSE NaN
    IN  IF width.nan \/ height.nan THEN HTTPException("InvalidSizeParameter")
        ELSE IF width.n <= 0 \/ height.n <= 0 THEN HTTPException("InvalidSizeParameter")
        ELSE IF width.n > MAX_DIMENSION * width.den
                \/ height.n > MAX_DIMENSION * height.den
             THEN HTTPException("InvalidSizeParameter")
        ELSE Ok([width |-> width, height |-> height])

(***************************************************************************)
(* sharp: resize with fit 'inside' and withoutEnlargement.                 *)
(***************************************************************************)
\* a / b rounded to the nearest integer, at least 1
scaled(a, b) ==
    LET r == (2 * a + b) \div (2 * b) IN IF r < 1 THEN 1 ELSE r

\* resize() of sharp takes a positive integer for width and for height and
\* throws on any other number
invalidParameter(width, height) ==
    \/ ~isInteger(width) \/ width.n <= 0
    \/ ~isInteger(height) \/ height.n <= 0

\* a resize to exactly width by height, as sharp does with fit 'fill'
sharpResizeFill(buffer, width, height) ==
    [id |-> buffer.id, width |-> width.n \div width.den,
     height |-> height.n \div height.den, pass |-> buffer.pass + 1]

\* sharp(buffer).resize({width, height, fit: 'inside',
\*                       withoutEnlargement: true}).toBuffer()
sharpResize(buffer, width, height) ==
    LET w == width.n \div width.den
        h == height.n \div height.den
        fits == buffer.width <= w /\ buffer.height <= h
        \* the horizontal shrink factor is the larger one
        byWidth == buffer.width * h >= buffer.height * w
    IN  [id |-> buffer.id,
         width |-> IF fits THEN buffer.width
                   ELSE IF byWidth THEN w
                   ELSE scaled(buffer.width * h, buffer.height),
         height |-> IF fits THEN buffer.height
                    ELSE IF byWidth THEN scaled(buffer.height * w, buffer.width)
                    ELSE h,
         pass |-> buffer.pass + 1]

(***************************************************************************)
(* Bounds of the workload on the bucket.                                   *)
(***************************************************************************)
\* HTTP requests received
MaxRequests == 2
\* tasks they start: one per read request, one per file of an upload
MaxTasks == 2
\* files in one upload form
MaxFiles == 2
\* requests the bucket or sharp may fail
MaxFaults == 1

(***************************************************************************)
(* The bucket.                                                             *)
(***************************************************************************)
\* a listing that returns only the key equal to the prefix
listObjectsExact(s, prefix) == {k \in DOMAIN s : k = prefix}

\* s3.listObjects(bucket, prefix): the keys that begin with prefix
listObjects(s, prefix) == {k \in DOMAIN s : startsWith(k, prefix)}

\* the Key of a delete request: key.startsWith('/') ? key.substring(1) : key
deleteKey(key) == IF startsWith(key, SLASH) THEN Drop(key, 1) ELSE key

\* a delete request that removes nothing
removeObjectNothing(s, key) == s

\* s3.removeObject(bucket, key), served
removeObject(s, key) == [k \in DOMAIN s \ {deleteKey(key)} |-> s[k]]

\* the DeleteObjects request of s3.removeObjects(bucket, keys), served
deleteObjects(s, keys) ==
    [k \in DOMAIN s \ {deleteKey(key) : key \in keys} |-> s[k]]

\* "image/jpeg"
IMAGE_JPEG == <<105, 109, 97, 103, 101, 47, 106, 112, 101, 103>>
\* "image/"
IMAGE_TYPE == <<105, 109, 97, 103, 101, 47>>
\* "text/plain"
TEXT_PLAIN == <<116, 101, 120, 116, 47, 112, 108, 97, 105, 110>>

\* a value that is absent (null, undefined); an absent string is written <<>>,
\* which the tests of the code treat as they treat ""
Nothing == [nothing |-> TRUE]

\* contentType || "image/jpeg"
orJpeg(contentType) == IF contentType = <<>> THEN IMAGE_JPEG ELSE contentType

\* a variant written over its original
resizedKeyOriginal(key, size) == key

\* the key of a resized variant: `${key}_${size}`
resizedKey(key, size) == key \o UNDERSCORE \o size

\* the prefix cleanupResizedVariants lists: key + "_"
variantPrefix(key) == key \o UNDERSCORE

\* a cleanup that removes whatever the listing returns, even nothing
hasObjectsAlways(allObjects) == TRUE

\* allObjects.length > 0
hasObjects(allObjects) == Cardinality(allObjects) > 0

(***************************************************************************)
(* Inputs.                                                                 *)
(***************************************************************************)
\* the pictures clients upload
PictureA == [id |-> 1, width |-> 800, height |-> 600, pass |-> 0]
PictureB == [id |-> 2, width |-> 200, height |-> 150, pass |-> 0]

\* the entries of an upload form: [isFile, type, readable, content], readable
\* telling whether sharp can read the bytes
PhotoFile == [isFile |-> TRUE, type |-> IMAGE_JPEG, readable |-> TRUE, content |-> PictureB]
TextFile == [isFile |-> TRUE, type |-> TEXT_PLAIN, readable |-> FALSE, content |-> Nothing]
BrokenFile == [isFile |-> TRUE, type |-> IMAGE_PNG, readable |-> FALSE, content |-> Nothing]
TextField == [isFile |-> FALSE, type |-> <<>>, readable |-> FALSE, content |-> Nothing]
FormEntries == {PhotoFile, TextFile, BrokenFile, TextField}
Forms == UNION {[1..n -> FormEntries] : n \in 0..MaxFiles}

\* the upload prefix "p", Date.now() "1" and the values of
\* crypto.randomUUID(), "a" and "b"
UploadPrefix == <<112>>
Timestamps == {<<49>>}
UUIDs == {<<97>>, <<98>>}

\* `${prefix}/${timestamp}-${uuid}`
uploadKey(prefix, timestamp, uuid) ==
    prefix \o SLASH \o timestamp \o HYPHEN \o uuid

\* the key "p/1-a", under which PictureA was uploaded before
KeyA == uploadKey(UploadPrefix, <<49>>, <<97>>)
KeyB == uploadKey(UploadPrefix, <<49>>, <<98>>)

\* the size parameters "400x300" and "100X100"; the absent parameter
Size400x300 == <<52, 48, 48, 120, 51, 48, 48>>
Size100X100 == <<49, 48, 48, 88, 49, 48, 48>>
\* what follows "/image/" in a path without a prefix segment, and in paths
\* whose prefix is "p."
NoPrefix == <<>>
DottedKey == <<112, 46, 47, 49>>
DottedPrefix == <<112, 46>>
ReadKeys == {KeyA, KeyB, NoPrefix, DottedKey}
UploadPaths == {UploadPrefix, NoPrefix, DottedPrefix}
Size100x100 == <<49, 48, 48, 120, 49, 48, 48>>
Size400x300xabc == <<52, 48, 48, 120, 51, 48, 48, 120, 97, 98, 99>>
ReadSizes == {Size400x300, Size100X100, Size100x100, Size400x300xabc, <<>>}

\* the size strings of the requests that try the validation: every string
\* of up to MaxTokenLen characters out of "0", "5", ".", "-", "+", "e" and
\* " ", and some longer ones, alone, on either side of "x" with a plain
\* number or a fraction on the other, and doubled
MaxTokenLen == 3
MaxSizedRequests == 1
SizeAlphabet == {48, 53, 46, 45, 43, 101, 32}
SampleTokens ==
    {<<97, 98, 99>>, <<52, 48, 48>>, <<51, 48, 48>>, <<52, 48>>, <<51, 48>>,
     <<54, 48, 48, 48>>, <<53, 48, 48, 49>>, <<48, 52, 48, 48>>,
     <<49, 101, 51>>, <<52, 46, 48>>, <<46, 53, 101, 49>>}
Tokens == UNION {[1..n -> SizeAlphabet] : n \in 0..MaxTokenLen} \cup SampleTokens
Partners == {<<51, 48, 48>>, <<46, 53, 48>>}
SampleSizes ==
    {<<52, 48, 120, 120, 51, 48>>, <<52, 48, 48, 88, 51, 48, 48>>,
     <<52, 48, 48, 120, 51, 48, 48, 120, 97, 98, 99>>,
     <<53, 48, 48, 49, 120, 53, 48, 48, 49>>}
SizeStrings ==
    Tokens
        \cup {t \o <<X>> \o p : t \in Tokens, p \in Partners}
        \cup {p \o <<X>> \o t : t \in Tokens, p \in Partners}
        \cup {t \o <<X>> \o t : t \in Tokens}
        \cup SampleSizes

\* the bucket after the upload of a picture and after a read of a size
uploaded(s, key, picture) == putObject(s, key, picture, IMAGE_PNG)
cached(s, key, size) ==
    LET d == validateSize(size).value
    IN  putObject(s, resizedKey(key, toLowerCase(size)),
                  sharpResize(s[key].body, d.width, d.height), s[key].contentType)

\* the buckets the service starts from: after start-up, after the upload of
\* PictureA under KeyA, and after reads of it at both sizes
Bucket0 == ensureHealthCheckImage(EmptyBucket)
Bucket1 == uploaded(Bucket0, KeyA, PictureA)
Bucket3 == cached(cached(Bucket1, KeyA, Size400x300), KeyA, Size100X100)
InitialBuckets == {Bucket0, Bucket1, Bucket3}

\* a table of codes in which a missing image is a bad request
statusOfBadRequest(name) ==
    IF name \in {"StreamToBufferFailed", "CleanupResizedVariantsFailed",
                 "HealthCheckFailed", "CreateHealthCheckImageFailed", "Unknown"}
    THEN 500 ELSE 400

(***************************************************************************)
(* Requests and tasks.                                                     *)
(*                                                                         *)
(* A request is [kind, resp, after, logAt, bucket, ...]: after is the set  *)
(* of requests answered before it arrived, logAt the length of the log and *)
(* bucket the bucket when it arrived.  A task is the continuation of a     *)
(* handler that awaits the bucket or sharp: one per read request, one per  *)
(* file of an upload.                                                      *)
(***************************************************************************)
Pending == [state |-> "pending"]
\* a handler that answers the Unknown error where it has an image to return
imageResponseUnknown(image) == [state |-> "error", error |-> "Unknown", status |-> 500]
\* c.body(image.buffer, 200, {"Content-Type": image.contentType})
imageResponse(image) ==
    [state |-> "ok", buffer |-> image.buffer, contentType |-> image.contentType]
\* c.json({success: true, message, files})
filesResponse(keys) == [state |-> "ok", files |-> keys]
\* the code of handlers.<name>
statusOf(name) ==
    CASE name \in {"ImageNotFound", "PathNotFound"} -> 404
      [] name \in {"StreamToBufferFailed", "CleanupResizedVariantsFailed",
                    "HealthCheckFailed", "CreateHealthCheckImageFailed",
                    "Unknown"} -> 500
      [] OTHER -> 400

\* the response to a thrown HTTPException: err.getResponse()
errorResponse(name) == [state |-> "error", error |-> name, status |-> statusOf(name)]

answered == {r \in 1..Len(reqs) : reqs[r].resp # Pending}

RECURSIVE faultsOf(_)
faultsOf(ts) == IF ts = <<>> THEN 0 ELSE Head(ts).faults + faultsOf(Tail(ts))
\* the bucket or sharp may fail one more request
mayFail == faultsOf(tasks) < MaxFaults

\* /^[a-zA-Z0-9-_]+$/.test(prefix)
PREFIX_CHARS == (97..122) \cup (65..90) \cup (48..57) \cup {45, 95}
isPrefixFormat(prefix) ==
    prefix # <<>> /\ \A i \in 1..Len(prefix) : prefix[i] \in PREFIX_CHARS

\* the first segment of the path after "/image/"
firstSegment(rest) == split(rest, SLASH[1])[1]

\* handlers that take any prefix
prefixThrowsNever(prefix) == ""

\* the exception the prefix validation of both handlers throws, "" if none
prefixThrows(prefix) ==
    IF prefix = <<>> THEN "PrefixRequired"
    ELSE IF ~isPrefixFormat(prefix) THEN "InvalidPrefixFormat"
    ELSE ""

request(kind, input, resp) ==
    [kind |-> kind, input |-> input, resp |-> resp,
     after |-> answered, logAt |-> Len(log), bucket |-> store]

readTask(r, key, size) ==
    [kind |-> "read", req |-> r, pc |-> "getObject", phase |-> "original",
     key |-> key, size |-> size, target |-> key, data |-> Nothing,
     originalImage |-> Nothing, dims |-> Nothing, variant |-> Nothing,
     resizedBuffer |-> Nothing, faults |-> 0]

\* the checks a file goes through before the first await of its callback
fileThrows(file) ==
    IF ~file.isFile THEN "InvalidImageProvided"
    ELSE IF ~startsWith(file.type, IMAGE_TYPE) THEN "UnsupportedImageFormat"
    ELSE ""

fileTask(r, i, prefix, file) ==
    [kind |-> "file", req |-> r, index |-> i, prefix |-> prefix, file |-> file,
     pc |-> IF fileThrows(file) = "" THEN "arrayBuffer" ELSE "failed",
     error |-> fileThrows(file), key |-> <<>>, allObjects |-> {},
     pending |-> {}, fellBack |-> FALSE, listed |-> FALSE,
     bucket |-> EmptyBucket, logAt |-> 0, faults |-> 0]

\* a task takes a step; the request is answered if the step answers it and
\* no answer was given before
step(t, task, resp) ==
    /\ tasks' = [tasks EXCEPT ![t] = task]
    /\ reqs' = IF resp # Pending /\ reqs[task.req].resp = Pending
               THEN [reqs EXCEPT ![task.req].resp = resp]
               ELSE reqs

\* a store request enters the log
logged(op, keys, t, ok) ==
    Append(log, [op |-> op, keys |-> keys, by |-> t, ok |-> ok])

(***************************************************************************)
(* The read path: getImageWithResize, getImage, getOrCreateResizedImage.   *)
(***************************************************************************)
\* the catch of getOrCreateResizedImage: the variant is not served
cacheMissRethrown(task) ==
    [task |-> [task EXCEPT !.pc = "done"], resp |-> errorResponse("ImageNotFound")]

\* the catch of getOrCreateResizedImage: the variant is not served, so the
\* original is resized
cacheMiss(task) == [task |-> [task EXCEPT !.pc = "resize"], resp |-> Pending]

\* getOrCreateResizedImage ignores the variant it fetched
cacheHitIgnored(task, image) == cacheMiss(task)

\* a cache that serves the fetched variant only when it is the resize of
\* the original at hand
cacheHitRevalidated(task, image) ==
    IF image.buffer = sharpResize(task.originalImage.buffer,
                                  task.dims.width, task.dims.height)
    THEN [task |-> [task EXCEPT !.pc = "done"], resp |-> imageResponse(image)]
    ELSE cacheMiss(task)

\* return await getImage(resizedKey): the variant is the answer
cacheHit(task, image) ==
    [task |-> [task EXCEPT !.pc = "done"], resp |-> imageResponse(image)]

\* a getOrCreateResizedImage without the catch: ImageNotFound goes to the
\* handler whichever key was fetched
getImageThrewAnswered(task) ==
    [task |-> [task EXCEPT !.pc = "done"], resp |-> errorResponse("ImageNotFound")]

\* getImage(key) threw ImageNotFound: for the original the handler answers
\* with it, for the variant getOrCreateResizedImage goes on to resize
getImageThrew(task) ==
    IF task.phase = "original"
    THEN [task |-> [task EXCEPT !.pc = "done"], resp |-> errorResponse("ImageNotFound")]
    ELSE cacheMiss(task)

\* a handler that passes the size on as it came
lowerCasedNot(size) == size

\* size.toLowerCase(), as the handler passes it to validateSizeParameter
\* and to getOrCreateResizedImage
lowerCased(size) == toLowerCase(size)

\* getImage(key) returned image: the variant is the answer; the original is
\* the answer when no size is asked for, and otherwise the size is validated
\* and the variant looked up
getImageReturned(task, image) ==
    LET size == lowerCased(task.size)
        checked == validateSizeParameter(size)
        dims == validateSize(size)
        done == [task EXCEPT !.pc = "done"]
    IN  IF task.phase = "resized"
        THEN cacheHit(task, image)
        ELSE IF task.size = <<>>
        THEN [task |-> done, resp |-> imageResponse(image)]
        ELSE IF ~checked.ok
        THEN [task |-> done, resp |-> errorResponse(checked.message)]
        ELSE IF ~dims.ok
        THEN [task |-> done, resp |-> errorResponse(dims.message)]
        ELSE [task |-> [task EXCEPT !.pc = "getObject", !.phase = "resized",
                                    !.target = resizedKey(task.key, size),
                                    !.originalImage = image, !.dims = dims.value],
              resp |-> Pending]

\* getImageWithResize up to its first await, for one of the keys and sizes:
\* the prefix is validated and getImage(key) sends its GetObject
getImageWithResize(keys, sizes) ==
    \E key \in keys, size \in sizes :
        LET thrown == prefixThrows(firstSegment(key))
            \* the size is read after the prefix is validated
            input == [key |-> key, size |-> IF thrown # "" THEN <<>> ELSE size]
        IN  IF thrown # ""
            THEN /\ reqs' = Append(reqs, request("read", input, errorResponse(thrown)))
                 /\ UNCHANGED tasks
            ELSE /\ reqs' = Append(reqs, request("read", input, Pending))
                 /\ tasks' = Append(tasks, readTask(Len(reqs) + 1, key, size))

\* GET /image/<key>?size=<size> arrives
GetImageWithResize ==
    /\ Len(reqs) < MaxRequests
    /\ Len(tasks) < MaxTasks
    /\ getImageWithResize(ReadKeys, ReadSizes)
    /\ UNCHANGED <<store, log>>
    /\ UNCHANGED codecVars
    /\ UNCHANGED appVars

\* GET /image/<key>?size=<size> arrives with one of the size strings
GetImageSized ==
    /\ Len(reqs) < MaxSizedRequests
    /\ getImageWithResize({KeyA, KeyB, NoPrefix}, SizeStrings)
    /\ UNCHANGED <<store, log>>
    /\ UNCHANGED codecVars
    /\ UNCHANGED appVars

\* the bucket serves the GetObject of getObjectWithMetadata, or has no such
\* key
GetObject ==
    /\ \E t \in DOMAIN tasks :
        LET task == tasks[t]
            out == IF task.target \in DOMAIN store
                   THEN [task |-> [task EXCEPT !.pc = "headObject",
                                               !.data = store[task.target].body],
                         resp |-> Pending]
                   ELSE getImageThrew(task)
        IN  /\ task.kind = "read" /\ task.pc = "getObject"
            /\ step(t, out.task, out.resp)
    /\ UNCHANGED <<store, log>>
    /\ UNCHANGED codecVars
    /\ UNCHANGED appVars

\* the bucket fails the GetObject
GetObjectFails ==
    /\ mayFail
    /\ \E t \in DOMAIN tasks :
        LET task == tasks[t]
            out == getImageThrew([task EXCEPT !.faults = @ + 1])
        IN  /\ task.kind = "read" /\ task.pc = "getObject"
            /\ step(t, out.task, out.resp)
    /\ UNCHANGED <<store, log>>
    /\ UNCHANGED codecVars
    /\ UNCHANGED appVars

\* the bucket serves the HeadObject of getObjectWithMetadata, or has no such
\* key; streamToBuffer then reads the body
HeadObject ==
    /\ \E t \in DOMAIN tasks :
        LET task == tasks[t]
            image == [buffer |-> task.data,
                      contentType |-> orJpeg(store[task.target].contentType)]
            \* variant keeps what getImage(resizedKey) returned
            fetched == IF task.phase = "resized"
                       THEN [task EXCEPT !.variant = image] ELSE task
            out == IF task.target \in DOMAIN store
                   THEN getImageReturned(fetched, image)
                   ELSE getImageThrew(task)
        IN  /\ task.kind = "read" /\ task.pc = "headObject"
            /\ step(t, out.task, out.resp)
    /\ UNCHANGED <<store, log>>
    /\ UNCHANGED codecVars
    /\ UNCHANGED appVars

\* the bucket fails the HeadObject
HeadObjectFails ==
    /\ mayFail
    /\ \E t \in DOMAIN tasks :
        LET task == tasks[t]
            out == getImageThrew([task EXCEPT !.faults = @ + 1])
        IN  /\ task.kind = "read" /\ task.pc = "headObject"
            /\ step(t, out.task, out.resp)
    /\ UNCHANGED <<store, log>>
    /\ UNCHANGED codecVars
    /\ UNCHANGED appVars

\* sharp resizes the original, or throws at a width or height that is no
\* positive integer and the handler turns the error into Unknown
Resize ==
    /\ \E t \in DOMAIN tasks :
        LET task == tasks[t]
            resizedBuffer == sharpResize(task.originalImage.buffer,
                                         task.dims.width, task.dims.height)
        IN  /\ task.kind = "read" /\ task.pc = "resize"
            /\ IF invalidParameter(task.dims.width, task.dims.height)
               THEN step(t, [task EXCEPT !.pc = "done"], errorResponse("Unknown"))
               ELSE step(t, [task EXCEPT !.pc = "putObject",
                                        !.resizedBuffer = resizedBuffer], Pending)
    /\ UNCHANGED <<store, log>>
    /\ UNCHANGED codecVars
    /\ UNCHANGED appVars

\* sharp fails; the handler turns the error into Unknown
ResizeFails ==
    /\ mayFail
    /\ \E t \in DOMAIN tasks :
        LET task == tasks[t]
        IN  /\ task.kind = "read" /\ task.pc = "resize"
            /\ step(t, [task EXCEPT !.pc = "done", !.faults = @ + 1],
                    errorResponse("Unknown"))
    /\ UNCHANGED <<store, log>>
    /\ UNCHANGED codecVars
    /\ UNCHANGED appVars

\* the bucket serves the putObject of the variant, which is the answer
PutResized ==
    /\ \E t \in DOMAIN tasks :
        LET task == tasks[t]
            contentType == task.originalImage.contentType
        IN  /\ task.kind = "read" /\ task.pc = "putObject"
            /\ store' = putObject(store, task.target, task.resizedBuffer, contentType)
            /\ log' = logged("PutObject", {task.target}, t, TRUE)
            /\ step(t, [task EXCEPT !.pc = "done"],
                    imageResponse([buffer |-> task.resizedBuffer,
                                   contentType |-> contentType]))
    /\ UNCHANGED codecVars
    /\ UNCHANGED appVars

\* the bucket fails the putObject of the variant
PutResizedFails ==
    /\ mayFail
    /\ \E t \in DOMAIN tasks :
        LET task == tasks[t]
        IN  /\ task.kind = "read" /\ task.pc = "putObject"
            /\ log' = logged("PutObject", {task.target}, t, FALSE)
            /\ step(t, [task EXCEPT !.pc = "done", !.faults = @ + 1],
                    errorResponse("Unknown"))
    /\ UNCHANGED store
    /\ UNCHANGED codecVars
    /\ UNCHANGED appVars

(***************************************************************************)
(* The upload path: uploadImages, imageToBuffer, cleanupResizedVariants,   *)
(* removeObjects.                                                          *)
(***************************************************************************)
\* a callback that goes on to its putObject after the error
rejectedThenPut(task, name) == [task EXCEPT !.pc = "putObject", !.error = name]

\* the callback of a file threw: Promise.all rejects with the first error,
\* which the handler rethrows when it is an HTTPException and replaces by
\* Unknown otherwise; the callbacks of the other files go on
rejected(task, name) == [task EXCEPT !.pc = "failed", !.error = name]

\* the keys of the files of request r, in the order of the form
RECURSIVE keysOf(_, _)
keysOf(ts, r) ==
    IF ts = <<>> THEN <<>>
    ELSE IF Head(ts).kind = "file" /\ Head(ts).req = r
    THEN <<Head(ts).key>> \o keysOf(Tail(ts), r)
    ELSE keysOf(Tail(ts), r)

\* Promise.all is fulfilled once the callback of task t returns: the
\* callbacks of all other files of the request have returned
allFulfilled(ts, t) ==
    \A u \in DOMAIN ts :
        (u # t /\ ts[u].kind = "file" /\ ts[u].req = ts[t].req) => ts[u].pc = "done"

\* uploadImages up to its first await, for one of the paths and a form: the
\* prefix and the presence of files are validated, and the callback of every
\* file runs up to its first await
uploadImages(paths) ==
    \E path \in paths, form \in {f \in Forms : Len(tasks) + Len(f) <= MaxTasks} :
        LET r == Len(reqs) + 1
            prefix == firstSegment(path)
            \* the form is read after the prefix is validated
            input == [key |-> path, prefix |-> prefix,
                      form |-> IF prefixThrows(prefix) # "" THEN <<>> ELSE form]
            thrown == IF prefixThrows(prefix) # "" THEN prefixThrows(prefix)
                      ELSE IF Len(form) = 0 THEN "NoFileProvided"
                      ELSE ""
            files == seq([i \in 1..Len(form) |-> fileTask(r, i, prefix, form[i])],
                         Len(form))
            failed == {i \in 1..Len(form) : files[i].pc = "failed"}
            first == CHOOSE i \in failed : \A j \in failed : i <= j
        IN  IF thrown # ""
            THEN /\ reqs' = Append(reqs, request("upload", input, errorResponse(thrown)))
                 /\ UNCHANGED tasks
            ELSE /\ reqs' = Append(reqs, request("upload", input,
                                IF failed = {} THEN Pending
                                ELSE errorResponse(files[first].error)))
                 /\ tasks' = tasks \o files

\* POST /image/<prefix> arrives with a form
UploadImages ==
    /\ Len(reqs) < MaxRequests
    /\ uploadImages(UploadPaths)
    /\ UNCHANGED <<store, log>>
    /\ UNCHANGED codecVars
    /\ UNCHANGED appVars

\* imageToBuffer(file) returns or throws; on return the key is generated and
\* cleanupResizedVariants sends its listObjects
ImageToBuffer ==
    /\ \E t \in DOMAIN tasks, timestamp \in Timestamps, uuid \in UUIDs :
        LET task == tasks[t]
        IN  /\ task.kind = "file" /\ task.pc = "arrayBuffer"
            /\ IF ~task.file.readable
               THEN step(t, rejected(task, "InvalidImageProvided"),
                         errorResponse("InvalidImageProvided"))
               ELSE step(t, [task EXCEPT !.pc = "listObjects",
                                         !.key = uploadKey(task.prefix, timestamp, uuid),
                                         !.bucket = store, !.logAt = Len(log)],
                         Pending)
    /\ UNCHANGED <<store, log>>
    /\ UNCHANGED codecVars
    /\ UNCHANGED appVars

\* the bucket serves the listObjects of cleanupResizedVariants: with
\* variants listed removeObjects sends its DeleteObjects, with none the
\* cleanup returns and the putObject of the file is sent
ListObjects ==
    /\ \E t \in DOMAIN tasks :
        LET task == tasks[t]
            allObjects == listObjects(store, variantPrefix(task.key))
        IN  /\ task.kind = "file" /\ task.pc = "listObjects"
            /\ step(t, [task EXCEPT !.allObjects = allObjects, !.listed = TRUE,
                                    !.pc = IF hasObjects(allObjects)
                                           THEN "deleteObjects" ELSE "putObject"],
                    Pending)
    /\ UNCHANGED <<store, log>>
    /\ UNCHANGED codecVars
    /\ UNCHANGED appVars

\* the bucket fails the listObjects
ListObjectsFails ==
    /\ mayFail
    /\ \E t \in DOMAIN tasks :
        LET task == tasks[t]
        IN  /\ task.kind = "file" /\ task.pc = "listObjects"
            /\ step(t, rejected([task EXCEPT !.faults = @ + 1],
                                "CleanupResizedVariantsFailed"),
                    errorResponse("CleanupResizedVariantsFailed"))
    /\ UNCHANGED <<store, log>>
    /\ UNCHANGED codecVars
    /\ UNCHANGED appVars

\* the bucket serves the DeleteObjects of removeObjects; the cleanup returns
\* and the putObject of the file is sent
DeleteObjects ==
    /\ \E t \in DOMAIN tasks :
        LET task == tasks[t]
        IN  /\ task.kind = "file" /\ task.pc = "deleteObjects"
            /\ store' = deleteObjects(store, task.allObjects)
            /\ log' = logged("DeleteObjects", task.allObjects, t, TRUE)
            /\ step(t, [task EXCEPT !.pc = "putObject"], Pending)
    /\ UNCHANGED codecVars
    /\ UNCHANGED appVars

\* the bucket rejects the DeleteObjects; removeObjects falls back to one
\* removeObject per key, all sent at once
DeleteObjectsRejected ==
    /\ \E t \in DOMAIN tasks :
        LET task == tasks[t]
        IN  /\ task.kind = "file" /\ task.pc = "deleteObjects"
            /\ log' = logged("DeleteObjects", task.allObjects, t, FALSE)
            /\ step(t, [task EXCEPT !.pc = "removeObject", !.fellBack = TRUE,
                                    !.pending = task.allObjects], Pending)
    /\ UNCHANGED store
    /\ UNCHANGED codecVars
    /\ UNCHANGED appVars

\* the bucket serves one removeObject of the fallback; after the last one
\* the cleanup returns, unless it has thrown already
RemoveObject ==
    /\ \E t \in {u \in DOMAIN tasks : tasks[u].kind = "file"} :
        \E key \in tasks[t].pending :
            LET task == tasks[t]
                pending == task.pending \ {key}
            IN  /\ store' = removeObject(store, key)
                /\ log' = logged("DeleteObject", {key}, t, TRUE)
                /\ step(t, [task EXCEPT !.pending = pending,
                                        !.pc = IF @ = "removeObject" /\ pending = {}
                                               THEN "putObject" ELSE @],
                        Pending)
    /\ UNCHANGED codecVars
    /\ UNCHANGED appVars

\* the bucket fails one removeObject of the fallback: Promise.all rejects
\* and the cleanup throws, the other removeObject requests stay in flight
RemoveObjectFails ==
    /\ mayFail
    /\ \E t \in {u \in DOMAIN tasks : tasks[u].kind = "file"} :
        \E key \in tasks[t].pending :
            LET task == [tasks[t] EXCEPT !.pending = @ \ {key}, !.faults = @ + 1]
            IN  /\ log' = logged("DeleteObject", {key}, t, FALSE)
                /\ IF task.pc = "removeObject"
                   THEN step(t, rejected(task, "CleanupResizedVariantsFailed"),
                             errorResponse("CleanupResizedVariantsFailed"))
                   ELSE step(t, task, Pending)
    /\ UNCHANGED store
    /\ UNCHANGED codecVars
    /\ UNCHANGED appVars

\* the bucket serves the putObject of the file; extractImageMetadata, which
\* never throws, runs and the callback returns; the request is answered
\* when this was the last callback
PutUploaded ==
    /\ \E t \in DOMAIN tasks :
        LET task == tasks[t]
            done == [tasks EXCEPT ![t].pc = "done"]
        IN  /\ task.kind = "file" /\ task.pc = "putObject"
            /\ store' = putObject(store, task.key, task.file.content, task.file.type)
            /\ log' = logged("PutObject", {task.key}, t, TRUE)
            /\ step(t, done[t],
                    IF allFulfilled(tasks, t)
                    THEN filesResponse(keysOf(done, task.req)) ELSE Pending)
    /\ UNCHANGED codecVars
    /\ UNCHANGED appVars

\* the bucket fails the putObject of the file; the handler turns the error
\* into Unknown
PutUploadedFails ==
    /\ mayFail
    /\ \E t \in DOMAIN tasks :
        LET task == tasks[t]
        IN  /\ task.kind = "file" /\ task.pc = "putObject"
            /\ log' = logged("PutObject", {task.key}, t, FALSE)
            /\ step(t, rejected([task EXCEPT !.faults = @ + 1], "Unknown"),
                    errorResponse("Unknown"))
    /\ UNCHANGED store
    /\ UNCHANGED codecVars
    /\ UNCHANGED appVars

(***************************************************************************)
(* The service: requests arrive and the bucket serves what the handlers    *)
(* await, in any order.                                                    *)
(***************************************************************************)
Init ==
    /\ plainText = <<>>
    /\ issued = <<>>
    /\ dec = NoDec
    /\ legacy = NoLegacy
    /\ store \in InitialBuckets
    /\ Idle

Next ==
    \/ GetImageWithResize
    \/ GetObject
    \/ GetObjectFails
    \/ HeadObject
    \/ HeadObjectFails
    \/ Resize
    \/ ResizeFails
    \/ PutResized
    \/ PutResizedFails
    \/ UploadImages
    \/ ImageToBuffer
    \/ ListObjects
    \/ ListObjectsFails
    \/ DeleteObjects
    \/ DeleteObjectsRejected
    \/ RemoveObject
    \/ RemoveObjectFails
    \/ PutUploaded
    \/ PutUploadedFails

Spec == Init /\ [][Next]_vars

(***************************************************************************)
(* Properties of the resize cache, the cleanup and the upload.             *)
(***************************************************************************)
tasksOf(r) == {t \in DOMAIN tasks : tasks[t].req = r}

\* the bucket and sharp failed no request of r
faultFree(r) == \A t \in tasksOf(r) : tasks[t].faults = 0

\* every put and delete request the bucket received after the first n came
\* from the tasks in T
undisturbed(n, T) == \A i \in (n + 1)..Len(log) : log[i].by \in T

\* the putObject requests for key served after the first n requests
putsOf(key, n) ==
    {i \in (n + 1)..Len(log) :
        log[i].op = "PutObject" /\ log[i].ok /\ key \in log[i].keys}

\* the delete requests task t has sent
deletesBy(t) ==
    {i \in 1..Len(log) :
        log[i].by = t /\ log[i].op \in {"DeleteObjects", "DeleteObject"}}

\* the key of the variant read request r asks for
variantOf(r) ==
    reqs[r].input.key \o UNDERSCORE \o toLowerCase(reqs[r].input.size)

\* the resize of the original that read request r found on arrival
resizeOf(r) ==
    LET d == validateSize(reqs[r].input.size).value
    IN  sharpResize(reqs[r].bucket[reqs[r].input.key].body, d.width, d.height)

\* r1 and r2 are answered read requests for the same key and size, over an
\* original that is stored and a variant that is not when r1 arrives; the
\* bucket failed none of their requests and served nobody else meanwhile
sameRead(r1, r2) ==
    /\ r1 < r2
    /\ reqs[r1].kind = "read" /\ reqs[r2].kind = "read"
    /\ reqs[r1].input = reqs[r2].input
    /\ reqs[r1].input.size # <<>>
    /\ reqs[r1].resp # Pending /\ reqs[r2].resp # Pending
    /\ reqs[r1].input.key \in DOMAIN reqs[r1].bucket
    /\ variantOf(r1) \notin DOMAIN reqs[r1].bucket
    /\ faultFree(r1) /\ faultFree(r2)
    /\ undisturbed(reqs[r1].logAt, tasksOf(r1) \cup tasksOf(r2))

\* r2 arrived after r1 was answered
sequentialReads(r1, r2) == sameRead(r1, r2) /\ r1 \in reqs[r2].after

\* r2 arrived before r1 was answered
concurrentReads(r1, r2) == sameRead(r1, r2) /\ r1 \notin reqs[r2].after

\* C5: of two sequential reads of the same key and size that start without
\* the variant, exactly one putObject of the variant key is served, and the
\* second read returns the bytes the first one wrote without resizing
CacheReuse ==
    \A r1, r2 \in DOMAIN reqs :
        sequentialReads(r1, r2) =>
            /\ Cardinality(putsOf(variantOf(r1), reqs[r1].logAt)) = 1
            /\ reqs[r1].resp.state = "ok" /\ reqs[r2].resp.state = "ok"
            /\ reqs[r2].resp.buffer = reqs[r1].resp.buffer
            /\ reqs[r2].resp.buffer = resizeOf(r1)
            /\ \A t \in tasksOf(r2) : tasks[t].resizedBuffer = Nothing

\* two sequential reads of an uncached size have been answered
CacheReuseWitness ==
    \E r1, r2 \in DOMAIN reqs :
        /\ sequentialReads(r1, r2)
        /\ variantOf(r2) \in DOMAIN store

\* the variants stored for key: the keys key_<size> with a valid size
variantsOf(key) ==
    {v \in DOMAIN store :
        /\ startsWith(v, key \o UNDERSCORE)
        /\ validateSize(Drop(v, Len(key) + 1)).ok}

\* variant v of key is the resize of what is stored under key
derivedFromCurrent(key, v) ==
    LET d == validateSize(Drop(v, Len(key) + 1)).value
    IN  store[v].body = sharpResize(store[key].body, d.width, d.height)

\* C6: every stored variant of an uploaded key is the resize of the content
\* currently stored under that key
NoStaleVariant ==
    \A key \in {KeyA, KeyB} \cap DOMAIN store :
        \A v \in variantsOf(key) : derivedFromCurrent(key, v)

\* C7: two concurrent reads of the same key and uncached size both return
\* the resize of the original, the variant key ends with that content, and
\* one or two putObject requests are served
ConcurrentReadsAgree ==
    \A r1, r2 \in DOMAIN reqs :
        concurrentReads(r1, r2) =>
            LET original == reqs[r1].bucket[reqs[r1].input.key]
                expected == imageResponse([buffer |-> resizeOf(r1),
                                           contentType |-> original.contentType])
            IN  /\ reqs[r1].resp = expected
                /\ reqs[r2].resp = expected
                /\ variantOf(r1) \in DOMAIN store
                /\ store[variantOf(r1)].body = resizeOf(r1)
                /\ Cardinality(putsOf(variantOf(r1), reqs[r1].logAt)) \in {1, 2}

\* two concurrent reads of an uncached size have both resized and put
ConcurrentReadsWitness ==
    \E r1, r2 \in DOMAIN reqs :
        /\ concurrentReads(r1, r2)
        /\ Cardinality(putsOf(variantOf(r1), reqs[r1].logAt)) = 2
        /\ \A t \in tasksOf(r1) \cup tasksOf(r2) : tasks[t].resizedBuffer # Nothing

\* a file of upload request r failed validation
failedValidation(r) ==
    \E t \in tasksOf(r) :
        tasks[t].error \in {"InvalidImageProvided", "UnsupportedImageFormat"}

\* C8: when a file of an upload fails validation the request is answered
\* with a failure and no putObject of a file of that upload is served
BatchAllOrNothing ==
    \A r \in DOMAIN reqs :
        (reqs[r].kind = "upload" /\ failedValidation(r)) =>
            /\ reqs[r].resp.state = "error"
            /\ \A i \in DOMAIN log :
                   ~(log[i].op = "PutObject" /\ log[i].ok /\ log[i].by \in tasksOf(r))

\* cleanupResizedVariants(key) of task t has returned without error and the
\* bucket has served no request of anybody else since the call
cleanedUp(t) ==
    /\ tasks[t].kind = "file"
    /\ tasks[t].pc = "putObject"
    /\ undisturbed(tasks[t].logAt, {t})

calledWithoutVariants(t) ==
    /\ tasks[t].kind = "file"
    /\ tasks[t].key # <<>>
    /\ \A k \in DOMAIN tasks[t].bucket : ~startsWith(k, tasks[t].key \o UNDERSCORE)
    /\ tasks[t].faults = 0
    /\ undisturbed(tasks[t].logAt, {t})

\* C10: a cleanup called without variants sends no delete request, returns
\* without error and leaves the bucket as it was
CleanupNoop ==
    \A t \in DOMAIN tasks :
        calledWithoutVariants(t) =>
            /\ deletesBy(t) = {}
            /\ tasks[t].pc \in {"listObjects", "putObject", "done"}
            /\ tasks[t].pc \in {"listObjects", "putObject"} => store = tasks[t].bucket

\* a cleanup called without variants has returned
CleanupNoopWitness ==
    \E t \in DOMAIN tasks :
        /\ calledWithoutVariants(t)
        /\ tasks[t].pc = "putObject"
        /\ tasks[t].key \in DOMAIN store

(***************************************************************************)
(* Properties of the upload pipeline and of removeObjects.                 *)
(***************************************************************************)
\* the putObject requests task t has sent, served or failed
putsBy(t) == {i \in 1..Len(log) : log[i].by = t /\ log[i].op = "PutObject"}

\* before request i of the log, task t had key deleted
deletedBefore(t, key, i) ==
    \E j \in 1..(i - 1) :
        /\ log[j].by = t /\ log[j].ok
        /\ log[j].op \in {"DeleteObjects", "DeleteObject"}
        /\ key \in log[j].keys

\* a removeObject of task t has failed
deleteFailed(t) ==
    \E j \in 1..Len(log) : log[j].by = t /\ log[j].op = "DeleteObject" /\ ~log[j].ok

\* C11: a file's putObject is sent only after the listing of its cleanup was
\* served and every listed key deleted, with no delete failed; a pipeline
\* whose cleanup failed has the error CleanupResizedVariantsFailed, of
\* status 500, and sends no putObject
PutOnlyAfterCleanup ==
    \A t \in DOMAIN tasks :
        tasks[t].kind = "file" =>
            /\ \A i \in putsBy(t) :
                   /\ tasks[t].listed
                   /\ ~deleteFailed(t)
                   /\ \A key \in tasks[t].allObjects : deletedBefore(t, key, i)
            /\ (deleteFailed(t) \/ (tasks[t].key # <<>> /\ ~tasks[t].listed /\ tasks[t].faults > 0)) =>
                   /\ tasks[t].pc = "failed"
                   /\ tasks[t].error = "CleanupResizedVariantsFailed"
            /\ tasks[t].error = "CleanupResizedVariantsFailed" =>
                   /\ putsBy(t) = {}
                   /\ tasks[t].pc = "failed"
                   /\ reqs[tasks[t].req].resp.state = "error"
                   /\ statusOf(tasks[t].error) = 500
                   /\ reqs[tasks[t].req].resp.error = tasks[t].error =>
                          reqs[tasks[t].req].resp.status = 500

\* a file was put after its cleanup had deleted the variants it listed
PutAfterCleanupWitness ==
    \E t \in DOMAIN tasks :
        /\ tasks[t].kind = "file"
        /\ putsBy(t) # {}
        /\ tasks[t].allObjects # {}

\* task t has sent a removeObject for key
removeSent(t, key) ==
    \E j \in 1..Len(log) :
        log[j].by = t /\ log[j].op = "DeleteObject" /\ log[j].keys = {key}

\* a removeObject of task t for key was served
removeServed(t, key) ==
    \E j \in 1..Len(log) :
        log[j].by = t /\ log[j].op = "DeleteObject" /\ log[j].keys = {key} /\ log[j].ok

\* C12: after the DeleteObjects request was rejected every listed key gets
\* its own removeObject; when all of them are served the cleanup returns
\* with every listed key removed, and when one fails the cleanup fails
FallbackDeletesEach ==
    \A t \in DOMAIN tasks :
        (tasks[t].kind = "file" /\ tasks[t].fellBack) =>
            /\ \A key \in tasks[t].allObjects :
                   key \in tasks[t].pending \/ removeSent(t, key)
            /\ deleteFailed(t) =>
                   /\ tasks[t].pc = "failed"
                   /\ tasks[t].error = "CleanupResizedVariantsFailed"
            /\ (~deleteFailed(t) /\ tasks[t].pending = {}) =>
                   /\ tasks[t].error # "CleanupResizedVariantsFailed"
                   /\ tasks[t].pc # "removeObject"
                   /\ \A key \in tasks[t].allObjects : removeServed(t, key)
            /\ (tasks[t].pc = "putObject" /\ undisturbed(tasks[t].logAt, {t})) =>
                   \A key \in tasks[t].allObjects : key \notin DOMAIN store

\* a cleanup has returned after the fallback removed both variants it listed
FallbackWitness ==
    \E t \in DOMAIN tasks :
        /\ tasks[t].kind = "file" /\ tasks[t].fellBack
        /\ tasks[t].pc = "putObject"
        /\ Cardinality(tasks[t].allObjects) = 2
        /\ undisturbed(tasks[t].logAt, {t})

(***************************************************************************)
(* The read path alone, on the buckets earlier traffic can leave: with the *)
(* original, with both variants, and with a variant of picture A beside    *)
(* picture B, which an upload that raced a read leaves behind.             *)
(***************************************************************************)
StaleBucket ==
    putObject(cached(Bucket1, KeyA, Size100X100), KeyA, PictureB, IMAGE_JPEG)
ReadBuckets == {Bucket1, Bucket3, StaleBucket}

InitRead ==
    /\ plainText = <<>>
    /\ issued = <<>>
    /\ dec = NoDec
    /\ legacy = NoLegacy
    /\ store \in ReadBuckets
    /\ Idle

NextRead ==
    \/ GetImageWithResize
    \/ GetObject
    \/ GetObjectFails
    \/ HeadObject
    \/ HeadObjectFails
    \/ Resize
    \/ ResizeFails
    \/ PutResized
    \/ PutResizedFails

SpecRead == InitRead /\ [][NextRead]_vars

\* the bucket a raced upload leaves behind is one the service reaches
StaleBucketReached == store = StaleBucket

\* C13: when getImage(resizedKey) has returned, the read is answered with
\* the fetched object as it is, nothing was resized and nothing was put
CacheHitAsIs ==
    \A t \in DOMAIN tasks :
        (tasks[t].kind = "read" /\ tasks[t].variant # Nothing) =>
            /\ tasks[t].pc = "done"
            /\ reqs[tasks[t].req].resp = imageResponse(tasks[t].variant)
            /\ tasks[t].resizedBuffer = Nothing
            /\ putsBy(t) = {}
            /\ deletesBy(t) = {}

\* a read was answered with a fetched variant that is not the resize of the
\* original it had fetched
CacheHitAsIsWitness ==
    \E t \in DOMAIN tasks :
        /\ tasks[t].kind = "read" /\ tasks[t].variant # Nothing
        /\ tasks[t].variant.buffer #
               sharpResize(tasks[t].originalImage.buffer,
                           tasks[t].dims.width, tasks[t].dims.height)

\* getImage(resizedKey) threw in read task t
missed(t) ==
    /\ tasks[t].kind = "read" /\ tasks[t].phase = "resized"
    /\ tasks[t].variant = Nothing
    /\ tasks[t].pc \notin {"getObject", "headObject"}

\* what getOrCreateResizedImage returns on a miss in read task t
derivative(t) ==
    [buffer |-> sharpResize(tasks[t].originalImage.buffer,
                            tasks[t].dims.width, tasks[t].dims.height),
     contentType |-> tasks[t].originalImage.contentType]

\* the putObject requests of task t that were served
servedPutsBy(t) ==
    {i \in 1..Len(log) : log[i].by = t /\ log[i].op = "PutObject" /\ log[i].ok}

missResizes ==
    \A t \in DOMAIN tasks :
        missed(t) =>
            /\ tasks[t].pc \in {"resize", "putObject", "done"}
            /\ tasks[t].target =
                   resizedKey(tasks[t].key, toLowerCase(tasks[t].size))
            /\ tasks[t].resizedBuffer # Nothing =>
                   tasks[t].resizedBuffer = derivative(t).buffer
            /\ tasks[t].pc = "done" =>
                   \/ /\ reqs[tasks[t].req].resp = imageResponse(derivative(t))
                      /\ \E i \in servedPutsBy(t) : log[i].keys = {tasks[t].target}
                   \/ /\ reqs[tasks[t].req].resp = errorResponse("Unknown")
                      /\ servedPutsBy(t) = {}
                      /\ \/ tasks[t].resizedBuffer = Nothing
                         \/ \E i \in 1..Len(log) :
                                log[i].by = t /\ log[i].op = "PutObject" /\ ~log[i].ok

missStores ==
    \A t \in DOMAIN tasks :
        (missed(t) /\ tasks[t].pc = "putObject" /\ tasks'[t].pc = "done"
            /\ reqs'[tasks[t].req].resp.state = "ok") =>
            store' = putObject(store, tasks[t].target, derivative(t).buffer,
                               derivative(t).contentType)

\* C14: when getImage(resizedKey) throws, whatever made it throw, the
\* original at hand is resized, the result is put under the variant key
\* with the content type of the original, and the read is answered with
\* those bytes and that content type; the read fails only when sharp or the
\* putObject fails
MissResizesAndStores == []missResizes /\ [][missStores]_vars

\* a read whose fetch of a stored variant failed was answered with the
\* resize it wrote
MissResizesAndStoresWitness ==
    \E t \in DOMAIN tasks :
        /\ missed(t) /\ tasks[t].pc = "done"
        /\ tasks[t].target \in DOMAIN reqs[tasks[t].req].bucket
        /\ reqs[tasks[t].req].resp = imageResponse(derivative(t))
        /\ tasks[t].target \in DOMAIN store
        /\ store[tasks[t].target].body = derivative(t).buffer

\* read task t has gone on to the variant
onVariant(t) == tasks[t].kind = "read" /\ tasks[t].phase = "resized"

\* C15: the key a read fetches and writes its variant under is the key of
\* the original, "_" and the size string in lower case, so that reads of
\* "100X100" and of "100x100" use one variant key, and neither is rejected
\* for its size
VariantKeyLowerCase ==
    /\ \A t \in DOMAIN tasks :
           onVariant(t) =>
               /\ tasks[t].target =
                      tasks[t].key \o <<95>> \o toLowerCase(tasks[t].size)
               /\ \A i \in 1..Len(log) :
                      log[i].by = t => log[i].keys = {tasks[t].target}
    /\ \A t, u \in DOMAIN tasks :
           (onVariant(t) /\ onVariant(u) /\ tasks[t].key = tasks[u].key
               /\ tasks[t].size = Size100X100 /\ tasks[u].size = Size100x100) =>
               /\ tasks[t].target = tasks[u].target
               /\ tasks[t].target = tasks[t].key \o <<95>> \o Size100x100
    /\ \A r \in DOMAIN reqs :
           (reqs[r].kind = "read" /\ reqs[r].input.size = Size100X100) =>
               reqs[r].resp # errorResponse("InvalidSizeParameter")

\* a read of "100X100" wrote the variant and a read of "100x100" was
\* answered with it
VariantKeyLowerCaseWitness ==
    \E t, u \in DOMAIN tasks :
        /\ onVariant(t) /\ onVariant(u) /\ tasks[t].key = tasks[u].key
        /\ tasks[t].size = Size100X100 /\ tasks[u].size = Size100x100
        /\ servedPutsBy(t) # {}
        /\ tasks[u].variant # Nothing
        /\ tasks[u].variant.buffer = tasks[t].resizedBuffer

(***************************************************************************)
(* The read path on one stored original, for requests that differ in their *)
(* size string.                                                            *)
(***************************************************************************)
\* originals of several shapes: landscape, small, portrait and one pixel
Portrait == [id |-> 3, width |-> 45, height |-> 1000, pass |-> 0]
Pixel == [id |-> 4, width |-> 1, height |-> 1, pass |-> 0]
Originals == {PictureA, PictureB, Portrait, Pixel}

InitSize ==
    /\ plainText = <<>>
    /\ issued = <<>>
    /\ dec = NoDec
    /\ legacy = NoLegacy
    /\ store \in {uploaded(Bucket0, KeyA, picture) : picture \in Originals}
    /\ Idle

NextSize ==
    \/ GetImageSized
    \/ GetObject
    \/ GetObjectFails
    \/ HeadObject
    \/ HeadObjectFails
    \/ Resize
    \/ ResizeFails
    \/ PutResized
    \/ PutResizedFails

SpecSize == InitSize /\ [][NextSize]_vars

\* n is a positive integer not above 5000
positiveInteger(number) ==
    isInteger(number) /\ number.n > 0 /\ number.n <= MAX_DIMENSION * number.den

\* the size string passes validateSizeParameter and validateSize
passesBoth(size) ==
    validateSizeParameter(toLowerCase(size)).ok /\ validateSize(toLowerCase(size)).ok

\* C16: the width and the height of a size string that passes both
\* validations, which are what sharp is given, are positive integers not
\* above 5000, and a read with any other size string that has fetched its
\* original is answered InvalidSizeParameter
ValidatedDimensions ==
    \A t \in DOMAIN tasks :
        (tasks[t].kind = "read" /\ tasks[t].size # <<>>) =>
            /\ tasks[t].phase = "resized" =>
                   /\ passesBoth(tasks[t].size)
                   /\ positiveInteger(tasks[t].dims.width)
                   /\ positiveInteger(tasks[t].dims.height)
            /\ (tasks[t].phase = "original" /\ tasks[t].pc = "done"
                    /\ tasks[t].faults = 0) =>
                   /\ ~passesBoth(tasks[t].size)
                   /\ reqs[tasks[t].req].resp = errorResponse("InvalidSizeParameter")
                   /\ reqs[tasks[t].req].resp.status = 400

\* a decimal digit string without leading zeros
canonical(token) ==
    /\ token # <<>>
    /\ \A i \in 1..Len(token) : token[i] \in DIGITS
    /\ (Len(token) > 1 => token[1] # 48)

\* the width or the height token of the size string is not canonical
nonCanonical(size) ==
    LET tokens == split(toLowerCase(size), X)
    IN  \E i \in 1..Len(tokens) : i <= 2 /\ ~canonical(tokens[i])

\* both tokens are canonical and one of them is above 5000
aboveMaximum(size) ==
    LET tokens == split(toLowerCase(size), X)
    IN  /\ Len(tokens) >= 2
        /\ canonical(tokens[1]) /\ canonical(tokens[2])
        /\ \/ digitsValue(tokens[1]) > MAX_DIMENSION
           \/ digitsValue(tokens[2]) > MAX_DIMENSION

\* C17: a read whose size string has a width or height token that is no
\* canonical decimal number, or a dimension above 5000, never goes on to
\* the variant: it fetches none, resizes nothing, puts nothing, and once
\* its original is fetched it is answered InvalidSizeParameter, status 400
NonCanonicalRejected ==
    \A t \in DOMAIN tasks :
        (tasks[t].kind = "read" /\ tasks[t].size # <<>>
            /\ (nonCanonical(tasks[t].size) \/ aboveMaximum(tasks[t].size))) =>
            /\ tasks[t].phase = "original"
            /\ tasks[t].resizedBuffer = Nothing
            /\ putsBy(t) = {}
            /\ (tasks[t].pc = "done" /\ tasks[t].faults = 0) =>
                   /\ reqs[tasks[t].req].resp = errorResponse("InvalidSizeParameter")
                   /\ reqs[tasks[t].req].resp.status = 400

\* the smaller of two numbers and the distance between two numbers
min(a, b) == IF a <= b THEN a ELSE b
distance(a, b) == IF a <= b THEN b - a ELSE a - b

\* read task t has resized its original
resized(t) == tasks[t].kind = "read" /\ tasks[t].resizedBuffer # Nothing

\* C18: the derivative a read makes on a cache miss is no wider than the
\* original and the asked width, no higher than the original and the asked
\* height, is the original's size when that fits, and has the original's
\* aspect ratio to within one pixel
DerivativeFitsInside ==
    \A t \in DOMAIN tasks :
        resized(t) =>
            LET original == tasks[t].originalImage.buffer
                w == tasks[t].dims.width.n
                h == tasks[t].dims.height.n
                derived == tasks[t].resizedBuffer
            IN  /\ positiveInteger(tasks[t].dims.width)
                /\ positiveInteger(tasks[t].dims.height)
                /\ derived.width >= 1 /\ derived.height >= 1
                /\ derived.width <= min(original.width, w)
                /\ derived.height <= min(original.height, h)
                /\ (original.width <= w /\ original.height <= h) =>
                       /\ derived.width = original.width
                       /\ derived.height = original.height
                /\ \/ distance(derived.width * original.height,
                               derived.height * original.width) < original.width
                   \/ distance(derived.width * original.height,
                               derived.height * original.width) < original.height

\* a derivative that took the asked height and a rounded width below the
\* asked one was made and stored
DerivativeFitsInsideWitness ==
    \E t \in DOMAIN tasks :
        /\ resized(t) /\ tasks[t].pc = "done"
        /\ tasks[t].resizedBuffer.height = tasks[t].dims.height.n
        /\ tasks[t].resizedBuffer.width < tasks[t].dims.width.n
        /\ tasks[t].resizedBuffer.width * tasks[t].originalImage.buffer.height
               # tasks[t].resizedBuffer.height * tasks[t].originalImage.buffer.width
        /\ tasks[t].target \in DOMAIN store
        /\ store[tasks[t].target].body = tasks[t].resizedBuffer

\* the one key a read of key and size may put
variantKey(t) == tasks[t].key \o <<95>> \o toLowerCase(tasks[t].size)

\* read tasks only fetch, resize and put, and what they sent to the bucket
\* are puts of their variant key
readsOnlyPut ==
    \A t \in DOMAIN tasks :
        tasks[t].kind = "read" =>
            /\ tasks[t].pc \in {"getObject", "headObject", "resize", "putObject", "done"}
            /\ deletesBy(t) = {}
            /\ \A i \in 1..Len(log) :
                   log[i].by = t =>
                       /\ log[i].op = "PutObject"
                       /\ log[i].keys = {variantKey(t)}
                       /\ tasks[t].size # <<>>

\* a step of a read removes no key and changes at most its variant key,
\* which is not the key of its original
readStepKeeps ==
    /\ \A t \in DOMAIN tasks :
           (tasks[t].kind = "read" /\ tasks'[t] # tasks[t]) =>
               /\ variantKey(t) # tasks[t].key
               /\ DOMAIN store \subseteq DOMAIN store'
               /\ DOMAIN store' \subseteq DOMAIN store \cup {variantKey(t)}
               /\ \A k \in DOMAIN store : k # variantKey(t) => store'[k] = store[k]
    /\ (Len(tasks') > Len(tasks) /\ tasks'[Len(tasks')].kind = "read") =>
           store' = store /\ log' = log

\* C19: a read request sends no delete and runs no cleanup; the one change
\* it makes to the bucket is a put under key_size, and the object under the
\* key of the original stays as it is
ReadOnlyPutsVariant == []readsOnlyPut /\ [][readStepKeeps]_vars

\* a read has put its variant and the original it fetched is still stored
ReadOnlyPutsVariantWitness ==
    \E t \in DOMAIN tasks :
        /\ tasks[t].kind = "read" /\ servedPutsBy(t) # {}
        /\ variantKey(t) \in DOMAIN store
        /\ variantKey(t) \notin DOMAIN reqs[tasks[t].req].bucket
        /\ store[tasks[t].key] = reqs[tasks[t].req].bucket[tasks[t].key]

\* the prefix segment of the path of request r
prefixOf(r) == firstSegment(reqs[r].input.key)

\* C20: a read or an upload whose path has no prefix segment is answered
\* PrefixRequired, one whose prefix has a character outside letters,
\* digits, "_" and "-" is answered InvalidPrefixFormat, both with status
\* 400, and neither starts any task, so nothing is read from, written to,
\* listed in or deleted from the bucket for it
PrefixValidatedFirst ==
    \A r \in DOMAIN reqs :
        /\ prefixOf(r) = <<>> =>
               /\ reqs[r].resp = errorResponse("PrefixRequired")
               /\ reqs[r].resp.status = 400
               /\ tasksOf(r) = {}
        /\ (prefixOf(r) # <<>> /\ ~isPrefixFormat(prefixOf(r))) =>
               /\ reqs[r].resp = errorResponse("InvalidPrefixFormat")
               /\ reqs[r].resp.status = 400
               /\ tasksOf(r) = {}
        /\ tasksOf(r) # {} =>
               \A i \in 1..Len(prefixOf(r)) :
                   prefixOf(r)[i] \in (48..57) \cup (65..90) \cup (97..122) \cup {45, 95}

\* a read and an upload were rejected for their prefix, one for each reason,
\* and the bucket is as it was
PrefixValidatedFirstWitness ==
    \E r1, r2 \in DOMAIN reqs :
        /\ reqs[r1].kind = "read" /\ reqs[r2].kind = "upload"
        /\ reqs[r1].resp = errorResponse("InvalidPrefixFormat")
        /\ reqs[r2].resp = errorResponse("PrefixRequired")
        /\ store = reqs[r1].bucket /\ log = <<>>

(***************************************************************************)
(* Properties of reads that end in an error and of sizes that name the     *)
(* same dimensions.                                                        *)
(***************************************************************************)
\* C21: a read of a key the bucket does not hold never goes on to a
\* variant, resizes nothing and puts nothing, and is answered ImageNotFound
\* with status 404 whatever its size string, valid, invalid or absent
AbsentOriginalNotFound ==
    \A t \in DOMAIN tasks :
        (tasks[t].kind = "read" /\ tasks[t].key \notin DOMAIN store
            /\ tasks[t].key \notin DOMAIN reqs[tasks[t].req].bucket) =>
            /\ tasks[t].phase = "original"
            /\ tasks[t].resizedBuffer = Nothing
            /\ putsBy(t) = {}
            /\ tasks[t].pc = "done" =>
                   /\ reqs[tasks[t].req].resp.state = "error"
                   /\ reqs[tasks[t].req].resp.error = "ImageNotFound"
                   /\ reqs[tasks[t].req].resp.status = 404

\* a read of an absent key with a size that fails the validations was
\* answered ImageNotFound
AbsentOriginalNotFoundWitness ==
    \E t \in DOMAIN tasks :
        /\ tasks[t].kind = "read" /\ tasks[t].key \notin DOMAIN store
        /\ tasks[t].pc = "done" /\ tasks[t].faults = 0
        /\ tasks[t].size # <<>> /\ ~passesBoth(tasks[t].size)
        /\ reqs[tasks[t].req].resp = errorResponse("ImageNotFound")

\* the size string is one canonical number, without "x"
bareNumber(size) == canonical(size)

\* C27: a size string that is one canonical number passes
\* validateSizeParameter and fails validateSize, and a read with it never
\* goes on to a variant: nothing is fetched under a variant key, resized or
\* put, and once the original is fetched the answer is InvalidSizeParameter
\* with status 400
BareNumberRejected ==
    \A t \in DOMAIN tasks :
        (tasks[t].kind = "read" /\ bareNumber(tasks[t].size)) =>
            /\ validateSizeParameter(toLowerCase(tasks[t].size)).ok
            /\ ~validateSize(toLowerCase(tasks[t].size)).ok
            /\ tasks[t].phase = "original"
            /\ tasks[t].target = tasks[t].key
            /\ tasks[t].resizedBuffer = Nothing
            /\ putsBy(t) = {}
            /\ (tasks[t].pc = "done" /\ tasks[t].faults = 0
                    /\ tasks[t].key \in DOMAIN store) =>
                   /\ reqs[tasks[t].req].resp = errorResponse("InvalidSizeParameter")
                   /\ reqs[tasks[t].req].resp.status = 400

\* a read of a stored original with the size "400" was answered
\* InvalidSizeParameter
BareNumberRejectedWitness ==
    \E t \in DOMAIN tasks :
        /\ tasks[t].kind = "read" /\ tasks[t].size = <<52, 48, 48>>
        /\ tasks[t].originalImage = Nothing
        /\ tasks[t].data # Nothing
        /\ tasks[t].pc = "done"
        /\ reqs[tasks[t].req].resp = errorResponse("InvalidSizeParameter")
        /\ log = <<>>

\* the width and height the size string of read request r parses to
dimensionsOf(r) == validateSize(toLowerCase(reqs[r].input.size))

\* r1 and r2 are reads of the same stored key, both answered with an image,
\* whose size strings parse to the same width and height; r2 arrived after
\* r1 was answered, and the bucket failed none of their requests and served
\* nobody else meanwhile
sameDimensions(r1, r2) ==
    /\ r1 < r2
    /\ reqs[r1].kind = "read" /\ reqs[r2].kind = "read"
    /\ reqs[r1].input.key = reqs[r2].input.key
    /\ reqs[r1].input.size # <<>> /\ reqs[r2].input.size # <<>>
    /\ reqs[r1].resp # Pending /\ reqs[r2].resp # Pending
    /\ reqs[r1].resp.state = "ok" /\ reqs[r2].resp.state = "ok"
    /\ dimensionsOf(r1).ok /\ dimensionsOf(r2).ok
    /\ dimensionsOf(r1).value = dimensionsOf(r2).value
    /\ r1 \in reqs[r2].after
    /\ faultFree(r1) /\ faultFree(r2)
    /\ undisturbed(reqs[r1].logAt, tasksOf(r1) \cup tasksOf(r2))

\* C28: two sequential accepted reads of one key whose sizes parse to the
\* same width and height use one variant key, and between them at most one
\* putObject is served
SameDimensionsOneVariant ==
    \A r1, r2 \in DOMAIN reqs :
        sameDimensions(r1, r2) =>
            /\ variantOf(r1) = variantOf(r2)
            /\ Cardinality({i \in (reqs[r1].logAt + 1)..Len(log) :
                               log[i].op = "PutObject" /\ log[i].ok}) <= 1

\* the requests the bucket served after read request r arrived that were
\* not sent by r
servedToOthers(r) ==
    {i \in (reqs[r].logAt + 1)..Len(log) : log[i].ok /\ log[i].by \notin tasksOf(r)}

\* C29: a read that is answered with an error, whichever one, has had no
\* put and no delete served, and when the bucket served nobody else since
\* the read arrived the bucket holds exactly what it held then
ErrorReadKeepsStore ==
    \A r \in DOMAIN reqs :
        (reqs[r].kind = "read" /\ reqs[r].resp # Pending
            /\ reqs[r].resp.state = "error") =>
            /\ \A i \in 1..Len(log) : log[i].by \in tasksOf(r) => ~log[i].ok
            /\ servedToOthers(r) = {} => store = reqs[r].bucket

\* a read was answered Unknown after the bucket failed the put of the
\* variant it had resized
ErrorReadKeepsStoreWitness ==
    \E t \in DOMAIN tasks :
        /\ tasks[t].kind = "read" /\ tasks[t].pc = "done"
        /\ tasks[t].resizedBuffer # Nothing
        /\ reqs[tasks[t].req].resp = errorResponse("Unknown")
        /\ \E i \in putsBy(t) : ~log[i].ok
        /\ tasks[t].target \notin DOMAIN store


\* a read without a prefix was answered PrefixRequired, and sent the bucket
\* nothing
ErrorReadBadPrefixReached ==
    \E r \in DOMAIN reqs :
        /\ reqs[r].kind = "read" /\ reqs[r].resp = errorResponse("PrefixRequired")
        /\ tasksOf(r) = {} /\ store = reqs[r].bucket

(***************************************************************************)
(* The application: the exception classes, app.onError and the generic     *)
(* middlewares of server.ts, the routes and middlewares main.ts registers, *)
(* and the start of the process.                                           *)
(*                                                                         *)
(* A response is [status, type, json, text]: type is "json", "text",       *)
(* "empty" or "bytes".  An error is [http, name, status, res, message,     *)
(* stack]: http tells an HTTPException from any other Error.               *)
(***************************************************************************)
json(value, status) == [status |-> status, type |-> "json", json |-> value, text |-> ""]
text(message, status) == [status |-> status, type |-> "text", json |-> Nothing, text |-> message]
empty(status) == [status |-> status, type |-> "empty", json |-> Nothing, text |-> ""]
bytes(image) ==
    [status |-> 200, type |-> "bytes", json |-> Nothing, text |-> "",
     buffer |-> image.buffer, contentType |-> image.contentType]

\* the entries of handlers
Handlers ==
    {"InvalidKey", "KeyRequired", "NoImageProvided", "NoUrlProvided",
     "EmptyImageProvided", "InvalidImageProvided", "ValidationError",
     "ImageNotFound", "InvalidSizeParameter", "StreamToBufferFailed",
     "CleanupResizedVariantsFailed", "HealthCheckFailed",
     "CreateHealthCheckImageFailed", "Unknown", "PathNotFound",
     "NoFileProvided", "UnsupportedImageFormat", "PrefixRequired",
     "InvalidPrefixFormat"}

\* message, cause and errorCode of the entries the routes throw
properties(name) ==
    CASE name = "InvalidImageProvided" ->
             [message |-> "Empty or invalid image file",
              cause |-> "Empty or invalid image file",
              errorCode |-> "INVALID_IMAGE_PROVIDED"]
      [] name = "ImageNotFound" ->
             [message |-> "Image not found", cause |-> "Image not found",
              errorCode |-> "IMAGE_NOT_FOUND"]
      [] name = "InvalidSizeParameter" ->
             [message |-> "Invalid size parameter",
              cause |-> "Invalid size parameter",
              errorCode |-> "INVALID_SIZE_PARAMETER"]
      [] name = "PathNotFound" ->
             [message |-> "Path not found", cause |-> "Path not found",
              errorCode |-> "PATH_NOT_FOUND"]
      [] name = "NoFileProvided" ->
             [message |-> "No file provided in the request",
              cause |-> "No file provided in the request",
              errorCode |-> "NO_FILE_PROVIDED"]
      [] name = "UnsupportedImageFormat" ->
             [message |-> "Unsupported image format. Only image files are allowed",
              cause |-> "Unsupported image format",
              errorCode |-> "UNSUPPORTED_IMAGE_FORMAT"]
      [] name = "PrefixRequired" ->
             [message |-> "Prefix is required in the path",
              cause |-> "Prefix is required in the path",
              errorCode |-> "PREFIX_REQUIRED"]
      [] name = "InvalidPrefixFormat" ->
             [message |-> "Prefix can only contain alphanumeric characters, hyphens, and underscores",
              cause |-> "Invalid prefix format",
              errorCode |-> "INVALID_PREFIX_FORMAT"]
      [] OTHER ->
             [message |-> "Unknown error", cause |-> "Unknown error",
              errorCode |-> "UNKNOWN"]

\* the Context of a request, as an options object: it has own properties,
\* and none of them is named c
Context == [finalized |-> FALSE]
\* new handlers.X() without an argument: options || {}
NoOptions == [k \in {} |-> Nothing]

\* the constructor of the class createClass(className, properties) returns,
\* called with options
createClass(className, options) ==
    LET c == IF "c" \in DOMAIN options THEN options.c ELSE Nothing
        rest == [k \in DOMAIN options \ {"c"} |-> options[k]]
        res == IF c = Nothing THEN Nothing
               ELSE json(rest @@ properties(className), statusOf(className))
    IN  [http |-> TRUE, name |-> className, status |-> statusOf(className),
         res |-> res, message |-> properties(className).message,
         stack |-> "stack"]

\* new handlers.<className>(options): an entry handlers does not have is
\* undefined, and new undefined is a TypeError
construct(className, options) ==
    IF className \in Handlers THEN createClass(className, options)
    ELSE [http |-> FALSE, name |-> "TypeError", status |-> 0, res |-> Nothing,
          message |-> "handlers." \o className \o " is not a constructor",
          stack |-> "stack"]

\* the options each throw of the routes and of the resize cache passes
thrownWith(name) ==
    CASE name \in {"PrefixRequired", "InvalidPrefixFormat", "NoFileProvided",
                   "PathNotFound"} -> Context
      [] name = "InvalidSizeParameter" -> [reason |-> "reason"]
      [] OTHER -> NoOptions

\* err.getResponse() of an HTTPException
getResponse(err) ==
    IF err.res # Nothing THEN [err.res EXCEPT !.status = err.status]
    ELSE text(err.message, err.status)

\* app.onError((err, c) => ...)
onError(err) ==
    IF err.http THEN getResponse(err)
    ELSE json([message |-> "Internal Server Error", cause |-> "Unknown Error",
               error |-> [stack |-> err.stack, message |-> err.message]], 500)

\* what the caller receives for the answer of a route handler
delivered(resp) ==
    IF resp = Pending THEN Pending
    ELSE IF resp.state = "error"
    THEN onError(construct(resp.error, thrownWith(resp.error)))
    ELSE IF "buffer" \in DOMAIN resp THEN bytes(resp)
    ELSE json([success |-> TRUE, files |-> resp.files], 200)

\* the paths of the routes, and "*"
IMAGE == <<47, 105, 109, 97, 103, 101>>
IMAGE_SLASH == IMAGE \o SLASH
HEALTH_CHECK == <<47, 104, 101, 97, 108, 116, 104, 45, 99, 104, 101, 99, 107>>
AUTH_TOKEN == <<47, 97, 117, 116, 104, 47, 116, 111, 107, 101, 110>>
STAR == <<42>>

\* str.replace(pattern, replacement) with a string pattern: the first
\* occurrence is replaced
replace(str, pattern, replacement) ==
    LET found == {i \in 1..(Len(str) - Len(pattern) + 1) :
                  SubSeq(str, i, i + Len(pattern) - 1) = pattern}
        first == CHOOSE i \in found : \A j \in found : i <= j
    IN  IF found = {} THEN str
        ELSE SubSeq(str, 1, first - 1) \o replacement
                 \o SubSeq(str, first + Len(pattern), Len(str))

\* app.use(...), the generic middlewares: each calls next()
GenericRoutes == <<[method |-> "ALL", path |-> STAR, handler |-> "middlewares"]>>

\* the routes main.ts registers, in its order
MainRoutes ==
    <<[method |-> "GET", path |-> HEALTH_CHECK, handler |-> "healthCheck"],
      [method |-> "POST", path |-> AUTH_TOKEN, handler |-> "auth"],
      [method |-> "GET", path |-> IMAGE, handler |-> "getImageWithResize"],
      [method |-> "POST", path |-> IMAGE, handler |-> "jwtValidation"],
      [method |-> "POST", path |-> IMAGE, handler |-> "uploadImages"],
      [method |-> "ALL", path |-> STAR, handler |-> "methodBlock"],
      [method |-> "ALL", path |-> STAR, handler |-> "catchAll"]>>

\* the routes of the app of process a
routes(a) == GenericRoutes \o (IF a.registered THEN MainRoutes ELSE <<>>)

\* the handlers a request runs through: the routes of its method, or of all
\* methods, whose path is the path of the request or "*", in the order of
\* their registration
matched(method, path, rs) ==
    SelectSeq(rs, LAMBDA r : r.method \in {"ALL", method} /\ r.path \in {STAR, path})

\* what a handler does: it calls next(), returns a response, throws, or is
\* one of the two route handlers of the image
CallsNext == [kind |-> "next"]
Return(res) == [kind |-> "return", res |-> res]
Throw(err) == [kind |-> "throw", err |-> err]
Enter(handler) == [kind |-> "enter", handler |-> handler]

\* verify(token, env.X_API_TOKEN_SIGN_KEY): the error it throws, "" if none
verify(token) ==
    CASE token = "valid" -> ""
      [] token = "expired" -> "JwtTokenExpired"
      [] OTHER -> "JwtTokenInvalid"

\* a jwtValidation that lets every request through
jwtValidationOpen(header) == CallsNext

\* jwtValidation(c, next)
jwtValidation(header) ==
    LET token == IF header = Nothing THEN "" ELSE header.value
    IN  IF token = "" THEN Return(json([error |-> "Unauthorized"], 401))
        ELSE IF verify(token) = "JwtTokenExpired"
        THEN Return(json([error |-> "Token expired"], 401))
        ELSE IF verify(token) # ""
        THEN Return(json([error |-> "Unauthorized"], 401))
        ELSE CallsNext

\* auth(c)
auth(header, body) ==
    IF header = Nothing \/ header.scheme # "Basic"
    THEN Return(json([error |-> "Unauthorized"], 401))
    ELSE IF ~body.json
    THEN Throw([http |-> FALSE, name |-> "SyntaxError", status |-> 0,
                res |-> Nothing, message |-> "Unexpected token", stack |-> "stack"])
    ELSE IF body.sub = "" THEN Return(json([error |-> "Invalid subscriber"], 401))
    ELSE IF header.value = "nocolon"
    THEN Return(json([error |-> "Invalid credentials format"], 400))
    ELSE IF header.value # "key:secret"
    THEN Return(json([error |-> "Invalid credentials"], 401))
    ELSE Return(json([access_token |-> "valid", expires_in |-> 900], 200))

\* the handler of /health-check: performHealthCheck(s3) and its status
healthCheck(s, fails) ==
    IF fails \/ HEALTH_CHECK_IMAGE_KEY \notin DOMAIN s
    THEN Return(json([status |-> "error", message |-> "Health check failed"], 500))
    ELSE Return(json([status |-> "healthy",
                      message |-> "Image service is fully operational"], 200))

\* the middleware that blocks the methods other than GET and POST
methodBlock(method) ==
    IF method \notin {"GET", "POST"}
    THEN Throw(construct("MethodNotAllowed", Context))
    ELSE CallsNext

\* the handler of request req that is registered under name
handle(name, req) ==
    CASE name = "middlewares" -> CallsNext
      [] name = "healthCheck" -> healthCheck(req.store, req.fails)
      [] name = "auth" -> auth(req.header, req.body)
      [] name = "jwtValidation" -> jwtValidation(req.header)
      [] name = "methodBlock" -> methodBlock(req.method)
      [] name = "catchAll" -> Return(empty(204))
      [] OTHER -> Enter(name)

\* the handlers of chain run from the i-th on, each one when the one before
\* called next(); after the last one app.notFound throws PathNotFound
RECURSIVE compose(_, _, _)
compose(chain, i, req) ==
    IF i > Len(chain)
    THEN [ran |-> <<>>, out |-> Throw(construct("PathNotFound", Context))]
    ELSE LET out == handle(chain[i].handler, req)
             rest == compose(chain, i + 1, req)
         IN  IF out.kind = "next"
             THEN [ran |-> <<chain[i].handler>> \o rest.ran, out |-> rest.out]
             ELSE [ran |-> <<chain[i].handler>>, out |-> out]

\* the requests that arrive
Methods == {"GET", "POST", "DELETE"}
Paths == {IMAGE, IMAGE_SLASH \o KeyA, IMAGE_SLASH \o UploadPrefix,
          HEALTH_CHECK, AUTH_TOKEN, <<47, 120>>}
Headers ==
    {Nothing}
        \cup {[scheme |-> "Bearer", value |-> token] :
                 token \in {"valid", "expired", "invalid", ""}}
        \cup {[scheme |-> "Basic", value |-> credentials] :
                 credentials \in {"key:secret", "key:wrong", "nocolon"}}
Bodies == {[json |-> FALSE, sub |-> ""], [json |-> TRUE, sub |-> ""],
           [json |-> TRUE, sub |-> "u"]}

\* app.fetch(request): the request runs through the matched handlers; the
\* two route handlers of the image run up to their first await; an error a
\* handler throws is answered by app.onError
Fetch ==
    /\ app.listening
    /\ Len(http) < MaxRequests
    /\ \E method \in Methods, path \in Paths, header \in Headers,
          body \in Bodies, fails \in BOOLEAN :
        LET req == [method |-> method, path |-> path, header |-> header,
                    body |-> body, store |-> store, fails |-> fails]
            d == compose(matched(method, path, routes(app)), 1, req)
            rest == replace(path, IMAGE_SLASH, <<>>)
            entered == d.out.kind = "enter"
            reads == \E i \in 1..Len(d.ran) : d.ran[i] \in {"jwtValidation", "auth"}
        IN  /\ IF entered /\ d.out.handler = "getImageWithResize"
               THEN getImageWithResize({rest}, ReadSizes)
               ELSE IF entered
               THEN uploadImages({rest})
               ELSE UNCHANGED <<reqs, tasks>>
            /\ http' = Append(http,
                   [method |-> method, path |-> path,
                    header |-> IF reads THEN header ELSE Nothing,
                    ran |-> d.ran,
                    err |-> IF d.out.kind = "throw" THEN d.out.err ELSE Nothing,
                    req |-> IF entered THEN Len(reqs) + 1 ELSE 0,
                    res |-> IF entered THEN delivered(reqs'[Len(reqs')].resp)
                            ELSE IF d.out.kind = "throw" THEN onError(d.out.err)
                            ELSE d.out.res])
    /\ UNCHANGED <<store, log, app>>
    /\ UNCHANGED codecVars

\* an EncryptionService that takes any master key
EncryptionServiceAny(masterKeyString) == Ok(masterKeyString)

\* new EncryptionService(masterKeyString)
EncryptionService(masterKeyString) ==
    IF masterKeyString = <<>>
    THEN Thrown("Encryption master key string is required.")
    ELSE Ok(masterKeyString)

\* the process when main.ts is about to be loaded
Loading(masterKeyString) ==
    [phase |-> "import", listening |-> FALSE, registered |-> FALSE, code |-> 0,
     env |-> [IMAGE_KEY_ENCRYPTION_KEY |-> masterKeyString]]

\* the modules main.ts imports are evaluated: server.ts creates the app,
\* registers the generic middlewares and calls serve; middleware.ts
\* constructs encryptionService, and an error it throws ends the process
Import ==
    /\ app.phase = "import"
    /\ IF EncryptionService(app.env.IMAGE_KEY_ENCRYPTION_KEY).ok
       THEN app' = [app EXCEPT !.phase = "bootstrap", !.listening = TRUE]
       ELSE app' = [app EXCEPT !.phase = "exited", !.code = 1]
    /\ UNCHANGED <<store, reqs, tasks, log, http>>
    /\ UNCHANGED codecVars

\* ensureHealthCheckImage(s3) returns, and main.ts registers its routes
EnsureHealthCheckImage ==
    /\ app.phase = "bootstrap"
    /\ store' = ensureHealthCheckImage(store)
    /\ app' = [app EXCEPT !.phase = "serving", !.registered = TRUE]
    /\ UNCHANGED <<reqs, tasks, log, http>>
    /\ UNCHANGED codecVars

\* ensureHealthCheckImage(s3) throws: the image cannot be read, and cannot
\* be created or put; main.ts calls process.exit(1)
EnsureHealthCheckImageFails ==
    /\ app.phase = "bootstrap"
    /\ app' = [app EXCEPT !.phase = "exited", !.listening = FALSE, !.code = 1]
    /\ UNCHANGED <<store, reqs, tasks, log, http>>
    /\ UNCHANGED codecVars

\* the master keys of the environment
MasterKeys == {<<>>, <<107, 101, 121>>}

InitApp ==
    /\ plainText = <<>>
    /\ issued = <<>>
    /\ dec = NoDec
    /\ legacy = NoLegacy
    /\ store \in {EmptyBucket, Bucket1}
    /\ reqs = <<>>
    /\ tasks = <<>>
    /\ log = <<>>
    /\ app \in {Loading(masterKeyString) : masterKeyString \in MasterKeys}
    /\ http = <<>>

NextApp ==
    \/ Import
    \/ EnsureHealthCheckImage
    \/ EnsureHealthCheckImageFails
    \/ Fetch

SpecApp == InitApp /\ [][NextApp]_vars

(***************************************************************************)
(* Properties of the application.                                          *)
(***************************************************************************)
\* handler name ran for exchange x
ran(x, name) == \E i \in 1..Len(x.ran) : x.ran[i] = name

\* exchange x was served by the routes of main.ts
routed(x) == Len(x.ran) > 1

\* the Authorization header of exchange x carries a token that verify accepts
verified(x) == x.header # Nothing /\ x.header.value # "" /\ verify(x.header.value) = ""

\* C22: uploadImages runs, and an upload request exists, only for an
\* exchange whose token was verified; a POST /image whose token is missing,
\* invalid or expired goes through jwtValidation, is answered 401, and
\* uploadImages does not run for it
UploadOnlyVerified ==
    /\ \A i \in 1..Len(http) :
           /\ (ran(http[i], "uploadImages") \/ (http[i].req # 0 /\ http[i].method = "POST"))
                  => verified(http[i]) /\ ran(http[i], "jwtValidation")
           /\ (http[i].method = "POST" /\ http[i].path = IMAGE /\ routed(http[i]))
                  => ran(http[i], "jwtValidation")
           /\ (ran(http[i], "jwtValidation") /\ ~verified(http[i])) =>
                  /\ http[i].res.status = 401
                  /\ ~ran(http[i], "uploadImages")
                  /\ http[i].req = 0
    /\ \A r \in DOMAIN reqs :
           reqs[r].kind = "upload" =>
               \E i \in 1..Len(http) : http[i].req = r /\ verified(http[i])
    /\ \A t \in DOMAIN tasks :
           tasks[t].kind = "file" =>
               \E i \in 1..Len(http) : http[i].req = tasks[t].req /\ verified(http[i])

\* a POST /image with an expired token was answered 401 "Token expired",
\* and one with a verified token reached uploadImages
UploadOnlyVerifiedWitness ==
    /\ \E i \in 1..Len(http) :
           /\ http[i].header = [scheme |-> "Bearer", value |-> "expired"]
           /\ http[i].ran = <<"middlewares", "jwtValidation">>
           /\ http[i].res = json([error |-> "Token expired"], 401)
    /\ \E i \in 1..Len(http) :
           /\ verified(http[i])
           /\ http[i].ran = <<"middlewares", "jwtValidation", "uploadImages">>
           /\ reqs[http[i].req].kind = "upload"


\* the validation errors of the routes
ValidationErrors ==
    {"InvalidSizeParameter", "PrefixRequired", "InvalidPrefixFormat",
     "NoFileProvided", "InvalidImageProvided", "UnsupportedImageFormat"}

\* res is the envelope of handlers.<name>: a JSON body with its message and
\* its errorCode
isEnvelope(res, name) ==
    /\ res.type = "json"
    /\ {"message", "errorCode"} \subseteq DOMAIN res.json
    /\ res.json.message = properties(name).message
    /\ res.json.errorCode = properties(name).errorCode

\* C23: a request a route answers with a validation error reaches the
\* caller with a status from 400 to 499 and the envelope of the error as
\* its body, with the errorCode and the message
ValidationErrorEnvelope ==
    \A r \in DOMAIN reqs :
        (reqs[r].resp # Pending /\ reqs[r].resp.state = "error"
            /\ reqs[r].resp.error \in ValidationErrors) =>
            /\ delivered(reqs[r].resp).status \in 400..499
            /\ isEnvelope(delivered(reqs[r].resp), reqs[r].resp.error)

\* the status of every validation error is 400 and its body is the text of
\* its message
ValidationErrorText ==
    \A name \in ValidationErrors :
        delivered(errorResponse(name)) = text(properties(name).message, 400)


\* what response res tells of an error: the text of a text body, and the
\* message and the stack inside the error member of a JSON body
detail(res) ==
    IF res.type = "text" THEN {res.text}
    ELSE IF res.type = "json" /\ {"cause", "error"} \subseteq DOMAIN res.json
    THEN {res.json.error.message, res.json.error.stack}
    ELSE {}

\* C24: an exchange in which an error that is no HTTPException was thrown is
\* answered with a status from 500 to 599 and a body that holds neither the
\* message nor the stack of the error
NoInternalDetail ==
    \A i \in 1..Len(http) :
        (http[i].err # Nothing /\ ~http[i].err.http) =>
            /\ http[i].res.status \in 500..599
            /\ http[i].err.message \notin detail(http[i].res)
            /\ http[i].err.stack \notin detail(http[i].res)

\* C25: a GET of /image/<key> the routes of main.ts serve, for a key with a
\* valid prefix that the bucket holds, is answered 200 with the bytes and
\* the content type stored under the key
StoredImageServed ==
    \A i \in 1..Len(http) :
        \A key \in DOMAIN store :
            (http[i].method = "GET" /\ http[i].path = IMAGE_SLASH \o key
                /\ routed(http[i]) /\ prefixThrows(firstSegment(key)) = "") =>
                /\ http[i].res.status = 200
                /\ http[i].res.type = "bytes"
                /\ http[i].res.buffer = store[key].body
                /\ http[i].res.contentType = store[key].contentType

\* C30: an exchange the routes of main.ts serve whose method is neither GET
\* nor POST ends in the method block with an HTTPException, is answered with
\* a status from 400 to 499, and runs no route handler
MethodBlocked ==
    \A i \in 1..Len(http) :
        (http[i].method \notin {"GET", "POST"} /\ routed(http[i])) =>
            /\ http[i].ran = <<"middlewares", "methodBlock">>
            /\ http[i].req = 0
            /\ http[i].err # Nothing
            /\ http[i].err.http
            /\ http[i].res.status \in 400..499

\* an exchange of another method ends in the method block and reaches no
\* route handler and no request of the image routes
MethodBlockedBeforeRoutes ==
    \A i \in 1..Len(http) :
        (http[i].method \notin {"GET", "POST"} /\ routed(http[i])) =>
            /\ http[i].ran = <<"middlewares", "methodBlock">>
            /\ http[i].req = 0
            /\ http[i].err # Nothing

\* no request reaches a route of the image with a path that has a prefix:
\* the routes answer PrefixRequired, and no task is started
NoTaskStarted ==
    /\ tasks = <<>>
    /\ \A r \in DOMAIN reqs : reqs[r].resp = errorResponse("PrefixRequired")


\* the process has ended with code 1 and the routes of main.ts are not
\* registered, and with an empty master key it ends when the modules are
\* loaded, at the constructor of EncryptionService
abortedAtStart ==
    /\ app.phase = "exited" => app.code = 1 /\ ~app.registered
    /\ app.registered => HEALTH_CHECK_IMAGE_KEY \in DOMAIN store
    /\ ~EncryptionService(<<>>).ok
    /\ (app.env.IMAGE_KEY_ENCRYPTION_KEY = <<>> /\ app.phase # "import") =>
           app.phase = "exited" /\ ~app.listening

\* nothing follows the end of the process: no route is registered, no
\* request is served and the bucket is not written
endIsFinal == app.phase = "exited" => UNCHANGED <<app, http, reqs, store>>

\* C26: when ensureHealthCheckImage fails the process ends with code 1
\* before main.ts registers a route, and none is registered afterwards; the
\* constructor of EncryptionService throws for an empty master key, which
\* ends the process when the modules are loaded
StartupAborts == []abortedAtStart /\ [][endIsFinal]_vars

\* the bootstrap has failed with a master key set, after the server, which
\* listens from the import of server.ts on, had answered a request
StartupAbortsWitness ==
    /\ app.phase = "exited" /\ app.code = 1
    /\ app.env.IMAGE_KEY_ENCRYPTION_KEY # <<>>
    /\ Len(http) = 1 /\ http[1].res.status = 404

====
